---- MODULE Spec2Model ----
(***************************************************************************)
(* canvas-mcp: the grading-site client (GradescopeApi), its cookie jar     *)
(* (CookieManager) and the TTL cache (WorkerCache) it shares with the tool *)
(* layer.  Two public calls of one client may be in flight at a time; each *)
(* action is the code that runs between two awaits of one call.            *)
(***************************************************************************)
EXTENDS Integers, Sequences, FiniteSets, TLC

VARIABLES now, cache, isAuthenticated, csrfToken, cookies, calls,
          credsValid, ghost, cacheLog, sessions

vars == <<now, cache, isAuthenticated, csrfToken, cookies, calls,
          credsValid, ghost, cacheLog, sessions>>

(***************************************************************************)
(* Bounds of the model.                                                    *)
(***************************************************************************)
\* the clock runs from 0 to MaxTime
MaxTime == 2
\* largest ttl a direct cache.set is given
MaxTTL == 2
\* the responses a cookie jar ingests
MaxIngest == 3
MaxCanvasCalls == 2

\* the ttl of a set without an explicit ttl (the time unit of the model)
DefaultTTL == 2

Calls == {1, 2}

\* what a call holds or returns: a value, absent (null), or a thrown exception
Absent == [kind |-> "absent"]
Threw == [kind |-> "threw"]
Pending == [kind |-> "pending"]
Value(v) == [kind |-> "value", v |-> v]

(***************************************************************************)
(* Strings are sequences of one-character strings, so that split, trim,    *)
(* join, toLowerCase and includes are computed and not assumed.            *)
(***************************************************************************)
RECURSIVE IndexOfFrom(_, _, _)
IndexOfFrom(s, ch, i) ==
  IF i > Len(s) THEN 0
  ELSE IF s[i] = ch THEN i ELSE IndexOfFrom(s, ch, i + 1)

\* s.split(sep) for a one-character separator
RECURSIVE Split(_, _)
Split(s, sep) ==
  LET i == IndexOfFrom(s, sep, 1) IN
  IF i = 0 THEN <<s>>
  ELSE <<SubSeq(s, 1, i - 1)>> \o Split(SubSeq(s, i + 1, Len(s)), sep)

RECURSIVE TrimLeft(_)
TrimLeft(s) == IF s # <<>> /\ Head(s) = " " THEN TrimLeft(Tail(s)) ELSE s

RECURSIVE TrimRight(_)
TrimRight(s) ==
  IF s # <<>> /\ s[Len(s)] = " " THEN TrimRight(SubSeq(s, 1, Len(s) - 1)) ELSE s

Trim(s) == TrimRight(TrimLeft(s))

\* parts.join(sep) for a string separator
RECURSIVE Join(_, _)
Join(parts, sep) ==
  IF parts = <<>> THEN <<>>
  ELSE IF Len(parts) = 1 THEN parts[1]
  ELSE parts[1] \o sep \o Join(Tail(parts), sep)

LowerChar(ch) ==
  CASE ch = "A" -> "a"
    [] ch = "B" -> "b"
    [] ch = "C" -> "c"
    [] ch = "D" -> "d"
    [] ch = "E" -> "e"
    [] ch = "F" -> "f"
    [] ch = "G" -> "g"
    [] ch = "H" -> "h"
    [] ch = "I" -> "i"
    [] ch = "J" -> "j"
    [] ch = "K" -> "k"
    [] ch = "L" -> "l"
    [] ch = "M" -> "m"
    [] ch = "N" -> "n"
    [] ch = "O" -> "o"
    [] ch = "P" -> "p"
    [] ch = "Q" -> "q"
    [] ch = "R" -> "r"
    [] ch = "S" -> "s"
    [] ch = "T" -> "t"
    [] ch = "U" -> "u"
    [] ch = "V" -> "v"
    [] ch = "W" -> "w"
    [] ch = "X" -> "x"
    [] ch = "Y" -> "y"
    [] ch = "Z" -> "z"
    [] OTHER -> ch

ToLowerCase(s) == [i \in 1..Len(s) |-> LowerChar(s[i])]

\* s.includes(t)
Includes(s, t) ==
  \E i \in 0..(Len(s) - Len(t)) : SubSeq(s, i + 1, i + Len(t)) = t

(***************************************************************************)
(* CookieManager                                                           *)
(***************************************************************************)
RECURSIVE JarIndex(_, _, _)
JarIndex(jar, name, i) ==
  IF i > Len(jar) THEN 0
  ELSE IF jar[i].name = name THEN i ELSE JarIndex(jar, name, i + 1)

\* a jar that keeps the first value of a name
JarSetFirstWins(jar, name, value) ==
  IF JarIndex(jar, name, 1) = 0
  THEN Append(jar, [name |-> name, value |-> value])
  ELSE jar

\* a jar that moves a name written again to the end
JarSetMovesToEnd(jar, name, value) ==
  Append(SelectSeq(jar, LAMBDA e : e.name # name),
         [name |-> name, value |-> value])

\* Map.set: a new name is appended, a known name keeps its place
JarSet(jar, name, value) ==
  LET i == JarIndex(jar, name, 1) IN
  IF i = 0 THEN Append(jar, [name |-> name, value |-> value])
  ELSE [jar EXCEPT ![i].value = value]

\* a jar that holds only the cookie set last
IngestOneAlone(jar, header) ==
  LET parts == Split(Split(header, ";")[1], "=") IN
  IF Len(parts) >= 2
  THEN JarSet(<<>>, Trim(parts[1]), Trim(Join(Tail(parts), <<"=">>)))
  ELSE jar

\* one Set-Cookie header: cookie.split(";")[0].split("=")
IngestOne(jar, header) ==
  LET parts == Split(Split(header, ";")[1], "=") IN
  IF Len(parts) >= 2
  THEN JarSet(jar, Trim(parts[1]), Trim(Join(Tail(parts), <<"=">>)))
  ELSE jar

RECURSIVE setCookiesFromHeaders(_, _)
setCookiesFromHeaders(jar, headers) ==
  IF headers = <<>> THEN jar
  ELSE setCookiesFromHeaders(IngestOne(jar, Head(headers)), Tail(headers))

getCookieString(jar) ==
  Join([i \in 1..Len(jar) |-> jar[i].name \o <<"=">> \o jar[i].value],
       <<";", " ">>)

(***************************************************************************)
(* WorkerCache (cache.ts is not among the sources; modelled from the       *)
(* specification, section 4.1).                                            *)
(***************************************************************************)
\* get and set without a subKey
NoSubKey == <<"undefined">>

\* a key that drops the subKey
CacheKeyCategoryOnly(category, subKey) == <<category, NoSubKey>>

CacheKey(category, subKey) == <<category, subKey>>

\* an entry that is still served at its expiry instant
CacheFreshInclusive(c, k, t) == k \in DOMAIN c /\ t <= c[k].expiresAt

CacheFresh(c, k, t) == k \in DOMAIN c /\ t < c[k].expiresAt

CacheGet(c, k, t) == IF CacheFresh(c, k, t) THEN Value(c[k].value) ELSE Absent

\* a stale entry is evicted by the get that finds it
CacheAfterGet(c, k, t) ==
  IF k \in DOMAIN c /\ ~CacheFresh(c, k, t)
  THEN [x \in DOMAIN c \ {k} |-> c[x]]
  ELSE c

\* a set that leaves an entry already held as it is
CacheSetKeepsFirst(c, k, v, ttl, t) ==
  IF k \in DOMAIN c THEN c
  ELSE [x \in DOMAIN c \cup {k} |->
          IF x = k THEN [value |-> v, expiresAt |-> t + ttl] ELSE c[x]]

\* a set that skips a value without elements
CacheSetNonEmpty(c, k, v, ttl, t) ==
  IF DOMAIN v = {} THEN c
  ELSE [x \in DOMAIN c \cup {k} |->
          IF x = k THEN [value |-> v, expiresAt |-> t + ttl] ELSE c[x]]

CacheSet(c, k, v, ttl, t) ==
  [x \in DOMAIN c \cup {k} |->
     IF x = k THEN [value |-> v, expiresAt |-> t + ttl] ELSE c[x]]

\* a clear that leaves the entry of the courses behind
CacheClearKeepsCourses ==
  [x \in {<<"gradescope_courses", NoSubKey>>} |->
     [value |-> <<>>, expiresAt |-> MaxTime + 1]]

CacheClear == [x \in {} |-> Absent]

(***************************************************************************)
(* Pages of the grading site, as far as the selectors of the client read   *)
(* them, and the parsers.                                                  *)
(***************************************************************************)
\* null or undefined where a string is expected, and a JSON value that is
\* no string (a number) where a string is expected
Null == <<"null">>
NotAString == <<"number">>
\* numbers
Num(n) == [num |-> n]
NaN == [nan |-> TRUE]
NullNum == [null |-> TRUE]
\* a heading that is not on the page; a heading without a .courseList
NoSection == [heading |-> FALSE]
NoList == <<[nolist |-> TRUE]>>

Digits == {"0", "1", "2", "3", "4", "5", "6", "7", "8", "9"}

DigitVal(ch) ==
  CASE ch = "0" -> 0 [] ch = "1" -> 1 [] ch = "2" -> 2 [] ch = "3" -> 3
    [] ch = "4" -> 4 [] ch = "5" -> 5 [] ch = "6" -> 6 [] ch = "7" -> 7
    [] ch = "8" -> 8 [] OTHER -> 9

\* the length of the longest prefix of digits
RECURSIVE DigitPrefix(_)
DigitPrefix(s) ==
  IF s # <<>> /\ Head(s) \in Digits THEN 1 + DigitPrefix(Tail(s)) ELSE 0

RECURSIVE DigitsValue(_)
DigitsValue(s) ==
  IF s = <<>> THEN 0
  ELSE 10 * DigitsValue(SubSeq(s, 1, Len(s) - 1)) + DigitVal(s[Len(s)])

\* parseFloat on unsigned integers: leading blanks skipped, digits read, the
\* rest ignored; NaN when no digit leads
ParseFloat(s) ==
  LET t == TrimLeft(s)
      n == DigitPrefix(t)
  IN IF n = 0 THEN NaN ELSE Num(DigitsValue(SubSeq(t, 1, n)))

\* the first index at or after i where t occurs in s, 0 if none
RECURSIVE FindFrom(_, _, _)
FindFrom(s, t, i) ==
  IF i + Len(t) - 1 > Len(s) THEN 0
  ELSE IF SubSeq(s, i, i + Len(t) - 1) = t THEN i
  ELSE FindFrom(s, t, i + 1)

\* s.split(t) for a separator of one or more characters
RECURSIVE SplitStr(_, _)
SplitStr(s, t) ==
  LET i == FindFrom(s, t, 1) IN
  IF i = 0 THEN <<s>>
  ELSE <<SubSeq(s, 1, i - 1)>> \o SplitStr(SubSeq(s, i + Len(t), Len(s)), t)

Last(s) == s[Len(s)]

\* A JavaScript object used as a dictionary, as the sequence of its entries
\* in enumeration order: integer-like keys ascending first, then the other
\* keys in insertion order.
IsIndexKey(k) == k # <<>> /\ DigitPrefix(k) = Len(k) /\ (Len(k) = 1 \/ k[1] # "0")

RECURSIVE DictIndex(_, _, _)
DictIndex(d, k, i) ==
  IF i > Len(d) THEN 0
  ELSE IF d[i].key = k THEN i ELSE DictIndex(d, k, i + 1)

\* where a new key goes
RECURSIVE DictSlot(_, _, _)
DictSlot(d, k, i) ==
  IF i > Len(d) THEN i
  ELSE IF ~IsIndexKey(k) THEN Len(d) + 1
  ELSE IF ~IsIndexKey(d[i].key) \/ DigitsValue(d[i].key) > DigitsValue(k) THEN i
  ELSE DictSlot(d, k, i + 1)

DictSet(d, k, v) ==
  LET i == DictIndex(d, k, 1)
      j == DictSlot(d, k, 1)
  IN IF i # 0 THEN [d EXCEPT ![i].value = v]
     ELSE SubSeq(d, 1, j - 1) \o <<[key |-> k, value |-> v]>> \o SubSeq(d, j, Len(d))

\* one <a> of a term of the course list
CourseFromAnchor(a, term, userType, isInstructor) ==
  LET st == Split(Trim(term), " ") IN
  [id |-> Last(Split(a.href, "/")),
   name |-> Trim(a.short),
   full_name |-> Trim(a.full),
   semester |-> st[1],
   year |-> IF Len(st) >= 2 THEN st[2] ELSE <<>>,
   num_grades_published |->
     IF userType = "Instructor Courses" \/ isInstructor THEN a.published ELSE Null,
   num_assignments |->
     IF userType = "Instructor Courses" \/ isInstructor THEN a.unpublished
     ELSE a.assignments]

RECURSIVE CoursesOfAnchors(_, _, _, _, _)
CoursesOfAnchors(dict, anchors, term, userType, isInstructor) ==
  IF anchors = <<>> THEN dict
  ELSE LET a == Head(anchors)
           skip == a.href = Null \/ a.href = <<>> \/ Last(Split(a.href, "/")) = <<>>
           c == CourseFromAnchor(a, term, userType, isInstructor)
       IN CoursesOfAnchors(IF skip THEN dict ELSE DictSet(dict, c.id, c),
                           Tail(anchors), term, userType, isInstructor)

RECURSIVE CoursesOfTerms(_, _, _, _)
CoursesOfTerms(dict, terms, userType, isInstructor) ==
  IF terms = <<>> THEN dict
  ELSE CoursesOfTerms(
         CoursesOfAnchors(dict, Head(terms).anchors, Head(terms).text,
                          userType, isInstructor),
         Tail(terms), userType, isInstructor)

SectionOf(page, userType) ==
  CASE userType = "Instructor Courses" -> page.instructor
    [] userType = "Student Courses" -> page.student
    [] OTHER -> page.yours

NotFound == [found |-> FALSE]

\* null, or {courses, isInstructor}
parseCoursesFromHTML(page, userType) ==
  LET sec == SectionOf(page, userType) IN
  IF ~sec.heading THEN NotFound
  ELSE IF sec.terms = NoList
  THEN [found |-> TRUE, courses |-> <<>>, isInstructor |-> sec.button]
  ELSE [found |-> TRUE,
        courses |-> CoursesOfTerms(<<>>, sec.terms, userType, sec.button),
        isInstructor |-> sec.button]

\* a client that reads "Your Courses" whatever the role sections hold
GroupCoursesYoursAlways(page) ==
  LET ic == parseCoursesFromHTML(page, "Instructor Courses")
      sc == parseCoursesFromHTML(page, "Student Courses")
      yc == parseCoursesFromHTML(page, "Your Courses")
      i0 == IF ic.found THEN ic.courses ELSE <<>>
      s0 == IF sc.found THEN sc.courses ELSE <<>>
  IN IF yc.found
     THEN IF yc.isInstructor
          THEN [instructor |-> yc.courses, student |-> s0]
          ELSE [instructor |-> i0, student |-> yc.courses]
     ELSE [instructor |-> i0, student |-> s0]

\* the grouping of getGradescopeCourses, before serialization
GroupCourses(page) ==
  LET ic == parseCoursesFromHTML(page, "Instructor Courses")
      sc == parseCoursesFromHTML(page, "Student Courses")
      yc == parseCoursesFromHTML(page, "Your Courses")
      i0 == IF ic.found THEN ic.courses ELSE <<>>
      s0 == IF sc.found THEN sc.courses ELSE <<>>
  IN IF Len(i0) = 0 /\ Len(s0) = 0 /\ yc.found
     THEN IF yc.isInstructor
          THEN [instructor |-> yc.courses, student |-> s0]
          ELSE [instructor |-> i0, student |-> yc.courses]
     ELSE [instructor |-> i0, student |-> s0]

CourseIdPrefix == <<"C", "o", "u", "r", "s", "e", " ", "I", "D", ":", " ">>

RECURSIVE SerializeGroup(_)
SerializeGroup(d) ==
  IF d = <<>> THEN <<>>
  ELSE DictSet(SerializeGroup(SubSeq(d, 1, Len(d) - 1)),
               CourseIdPrefix \o Last(d).key, Last(d).value)

SerializeCourses(page) ==
  LET g == GroupCourses(page) IN
  [student |-> SerializeGroup(g.student),
   instructor |-> SerializeGroup(g.instructor)]

\* no div[data-react-class="AssignmentsTable"]; props that JSON.parse rejects
NoDiv == [div |-> FALSE]
NoTableData == <<[undefined |-> TRUE]>>

\* a string, null or undefined in a condition
Falsy(v) == v = Null \/ v = <<>>

\* x ? new Date(x) : null
DateOf(v) == IF Falsy(v) THEN Null ELSE <<"Date">> \o v

\* one element of table_data; a title that is no string is kept as it is
InstructorAssignment(a) ==
  [assignment_id |-> IF a.url = Null \/ Last(Split(a.url, "/")) = <<>>
                     THEN <<>> ELSE Last(Split(a.url, "/")),
   name |-> IF Falsy(a.title) THEN <<>> ELSE a.title,
   release_date |-> DateOf(a.release_date),
   due_date |-> DateOf(a.due_date),
   late_due_date |-> DateOf(a.hard_due_date),
   submissions_status |-> Null,
   grade |-> NullNum,
   max_grade |-> IF Falsy(a.total_points) THEN NullNum ELSE ParseFloat(a.total_points)]

RECURSIVE InstructorAssignments(_)
InstructorAssignments(items) ==
  IF items = <<>> THEN <<>>
  ELSE (IF Head(items).type # "assignment" THEN <<>>
        ELSE <<InstructorAssignment(Head(items))>>)
       \o InstructorAssignments(Tail(items))

NoAssignments == [ok |-> FALSE]
Parsed(list) == [ok |-> TRUE, list |-> list]

\* null, or the list of assignments of the data block
parseAssignmentsInstructorView(page) ==
  IF ~page.react.div THEN NoAssignments
  ELSE IF ~page.react.props.json THEN NoAssignments
  ELSE IF page.react.props.table_data = NoTableData THEN Parsed(<<>>)
  ELSE Parsed(InstructorAssignments(page.react.props.table_data))

Slash3 == <<" ", "/", " ">>

StudentAssignment(r) ==
  LET points == Trim(r.points)
      split == SplitStr(points, Slash3)
      graded == FindFrom(points, Slash3, 1) # 0
      id == IF r.link # Null
            THEN (IF r.link = <<>> THEN Null
                  ELSE IF Len(Split(r.link, "/")) >= 5 THEN Split(r.link, "/")[5]
                  ELSE Null)
            ELSE IF r.button # Null /\ r.button # <<>> THEN r.button ELSE Null
  IN [assignment_id |-> IF id = Null THEN <<>> ELSE id,
      name |-> Trim(r.name),
      release_date |-> DateOf(r.release),
      due_date |-> IF Len(r.due) > 0 THEN DateOf(r.due[1]) ELSE Null,
      late_due_date |-> IF Len(r.due) > 1 THEN DateOf(r.due[2]) ELSE Null,
      submissions_status |-> IF graded THEN <<"Submitted">> ELSE points,
      grade |-> IF graded THEN ParseFloat(split[1]) ELSE NullNum,
      max_grade |-> IF graded THEN ParseFloat(split[2]) ELSE NullNum]

RECURSIVE StudentAssignments(_)
StudentAssignments(rows) ==
  IF rows = <<>> THEN <<>>
  ELSE (IF Head(rows).cells < 3 THEN <<>> ELSE <<StudentAssignment(Head(rows))>>)
       \o StudentAssignments(Tail(rows))

\* a parser that does not skip the header and the footer
parseEveryRow(page) == StudentAssignments(page.rows)

\* $('tr[role="row"]').slice(1, -1), then one assignment per row of 3 cells
parseAssignmentsStudentView(page) ==
  StudentAssignments(SubSeq(page.rows, 2, Len(page.rows) - 1))

\* a client that uses the table only when there is no data block to read
AssignmentsTableOnNull(page) ==
  LET a == parseAssignmentsInstructorView(page) IN
  IF ~a.ok THEN parseAssignmentsStudentView(page) ELSE a.list

\* the list getGradescopeAssignments builds from a page it could read
AssignmentsOfPage(page) ==
  LET a == parseAssignmentsInstructorView(page) IN
  IF ~a.ok \/ Len(a.list) = 0 THEN parseAssignmentsStudentView(page) ELSE a.list

\* assignment.name.toLowerCase(): a TypeError when the name is no string
NameIsString(a) == a.name # NotAString /\ a.name # Null

(***************************************************************************)
(* Name lookups and the query classifier                                   *)
(***************************************************************************)
NameMatches(course, courseName) ==
  \/ Includes(ToLowerCase(course.name), ToLowerCase(courseName))
  \/ Includes(ToLowerCase(course.full_name), ToLowerCase(courseName))

RECURSIVE FirstCourse(_, _)
FirstCourse(group, courseName) ==
  IF group = <<>> THEN Absent
  ELSE IF NameMatches(Head(group).value, courseName) THEN Value(Head(group).value)
  ELSE FirstCourse(Tail(group), courseName)

\* a lookup that searches the instructor group first
CourseByNameInstructorFirst(courses, courseName) ==
  IF courses.kind # "value" THEN Absent
  ELSE IF FirstCourse(courses.v.instructor, courseName).kind = "value"
  THEN FirstCourse(courses.v.instructor, courseName)
  ELSE FirstCourse(courses.v.student, courseName)

\* getGradescopeCourseByName, given what getGradescopeCourses returned
CourseByName(courses, courseName) ==
  IF courses.kind # "value" THEN Absent
  ELSE IF FirstCourse(courses.v.student, courseName).kind = "value"
  THEN FirstCourse(courses.v.student, courseName)
  ELSE FirstCourse(courses.v.instructor, courseName)

RECURSIVE FirstAssignment(_, _)
FirstAssignment(list, assignmentName) ==
  IF list = <<>> THEN Absent
  ELSE IF ~NameIsString(Head(list)) THEN Threw
  ELSE IF Includes(ToLowerCase(Head(list).name), ToLowerCase(assignmentName))
  THEN Value(Head(list))
  ELSE FirstAssignment(Tail(list), assignmentName)

\* getGradescopeAssignmentByName, given what getGradescopeAssignments returned
AssignmentByName(assignments, assignmentName) ==
  IF assignments.kind # "value" THEN Absent
  ELSE FirstAssignment(assignments.v, assignmentName)

CourseKeywords ==
  {<<"m", "y", " ", "c", "o", "u", "r", "s", "e", "s">>,
   <<"l", "i", "s", "t", " ", "c", "o", "u", "r", "s", "e", "s">>, <<"s", "h", "o", "w", " ", "c", "o", "u", "r", "s", "e", "s">>, <<"w", "h", "a", "t", " ", "c", "o", "u", "r", "s", "e", "s">>}
AssignmentKeywords == {<<"a", "s", "s", "i", "g", "n", "m", "e", "n", "t", "s">>, <<"h", "o", "m", "e", "w", "o", "r", "k">>, <<"d", "u", "e", " ", "d", "a", "t", "e", "s">>}
SubmissionKeywords == {<<"s", "u", "b", "m", "i", "s", "s", "i", "o", "n">>, <<"s", "u", "b", "m", "i", "t", "t", "e", "d">>, <<"g", "r", "a", "d", "e">>, <<"f", "e", "e", "d", "b", "a", "c", "k">>, <<"s", "c", "o", "r", "e">>}

HasKeyword(query, keywords) ==
  \E k \in keywords : Includes(ToLowerCase(query), k)

\* a classifier that tests the keyword sets in the reverse order
analyzeSubmissionFirst(query) ==
  IF HasKeyword(query, SubmissionKeywords)
  THEN [type |-> "get_submission", confidence |-> 7]
  ELSE IF HasKeyword(query, AssignmentKeywords)
  THEN [type |-> "get_assignments", confidence |-> 8]
  ELSE IF HasKeyword(query, CourseKeywords)
  THEN [type |-> "get_courses", confidence |-> 9]
  ELSE [type |-> "null", confidence |-> 0]

analyzeGradescopeQuery(query) ==
  IF HasKeyword(query, CourseKeywords)
  THEN [type |-> "get_courses", confidence |-> 9]
  ELSE IF HasKeyword(query, AssignmentKeywords)
  THEN [type |-> "get_assignments", confidence |-> 8]
  ELSE IF HasKeyword(query, SubmissionKeywords)
  THEN [type |-> "get_submission", confidence |-> 7]
  ELSE [type |-> "null", confidence |-> 0]

Guidance == [error |-> "not sure what you are asking"]

\* searchGradescope, given what getGradescopeCourses returned
SearchResult(query, courses) ==
  LET t == analyzeGradescopeQuery(query).type IN
  IF t = "null" THEN Value(Guidance)
  ELSE IF t = "get_courses"
  THEN (IF courses.kind = "value" THEN courses
        ELSE Value([error |-> "could not retrieve courses"]))
  ELSE (IF courses.kind = "value"
        THEN Value([message |-> "please specify which course", courses |-> courses.v])
        ELSE Value([error |-> "could not determine which course"]))

(***************************************************************************)
(* What the grading site may answer                                        *)
(***************************************************************************)
\* the Set-Cookie headers of one response
SetCookieChoices ==
  { <<>>,
    << <<"a", "=", "1">> >>,
    << <<"a", "=", "2", ";", " ", "P", "a", "t", "h", "=", "/">>, <<"b", "=", "3">> >> }

\* the value of form[action="/login"] input[name="authenticity_token"]
RootTokens == { Null, <<>>, <<"k", "1">>, <<"k", "2">> }

\* the content of meta[name="csrf-token"]
CsrfMetas == { Null, <<>>, <<"t", "1">> }

RootStatuses == {200, 500}
LoginStatuses == {200, 302, 401}
RedirectStatuses == {200, 404}
DataStatuses == {200, 401, 500}

\* a fetch that rejects, or a response with its status and Set-Cookie headers
FetchFailed == [failed |-> TRUE]
Responses(statuses) ==
  {FetchFailed} \cup
  {[failed |-> FALSE, status |-> st, setCookie |-> h] :
     st \in statuses, h \in SetCookieChoices}

Anchor(href, short, full) ==
  [href |-> href, short |-> short, full |-> full,
   published |-> Null, unpublished |-> <<>>, assignments |-> <<"2">>]

Section(button, terms) == [heading |-> TRUE, button |-> button, terms |-> terms]

PageStudent ==
  [instructor |-> NoSection,
   student |-> Section(FALSE,
     << [text |-> <<"F", "a", "l", "l", " ", "2", "0", "2", "4">>,
         anchors |-> << Anchor(<<"/", "c", "o", "u", "r", "s", "e", "s", "/", "1">>, <<"C", "S", "1">>, <<"I", "n", "t", "r", "o">>) >>] >>),
   yours |-> NoSection]

PageYours ==
  [instructor |-> NoSection,
   student |-> NoSection,
   yours |-> Section(TRUE,
     << [text |-> <<"F", "a", "l", "l", " ", "2", "0", "2", "4">>,
         anchors |-> << Anchor(<<"/", "c", "o", "u", "r", "s", "e", "s", "/", "2">>, <<"B", "I", "O">>, <<"B", "i", "o", "l", "o", "g", "y">>) >>] >>)]

PageNoCourses ==
  [instructor |-> NoSection, student |-> NoSection, yours |-> NoSection]

AccountPages == {PageStudent, PageYours, PageNoCourses}

Item(type, title) ==
  [type |-> type, title |-> title, url |-> <<"/", "c", "o", "u", "r", "s", "e", "s", "/", "1", "/", "a", "s", "s", "i", "g", "n", "m", "e", "n", "t", "s", "/", "7">>,
   release_date |-> Null, due_date |-> <<"2", "0", "2", "4", "-", "1", "0", "-", "0", "1">>, hard_due_date |-> Null,
   total_points |-> <<"1", "0">>]

Row(cells, name, points) ==
  [cells |-> cells, name |-> name, link |-> <<"/", "c", "o", "u", "r", "s", "e", "s", "/", "1", "/", "a", "s", "s", "i", "g", "n", "m", "e", "n", "t", "s", "/", "7", "/", "s", "u", "b", "m", "i", "s", "s", "i", "o", "n", "s", "/", "9">>, button |-> Null,
   points |-> points, release |-> Null, due |-> << <<"2", "0", "2", "4", "-", "1", "0", "-", "0", "1">> >>]

HeaderRow == Row(3, <<"N", "a", "m", "e">>, <<"S", "t", "a", "t", "u", "s">>)
FooterRow == Row(1, <<>>, <<>>)

CoursePageInstructor ==
  [react |-> [div |-> TRUE,
              props |-> [json |-> TRUE,
                         table_data |-> << Item("section", <<"W", "e", "e", "k", " ", "1">>),
                                           Item("assignment", <<"H", "W", "1">>) >>]],
   rows |-> <<>>]

CoursePageStudent ==
  [react |-> NoDiv,
   rows |-> << HeaderRow, Row(3, <<"H", "W", "1">>, <<"8", " ", "/", " ", "1", "0">>), FooterRow >>]

CoursePageOddTitle ==
  [react |-> [div |-> TRUE,
              props |-> [json |-> TRUE,
                         table_data |-> << Item("assignment", NotAString) >>]],
   rows |-> << HeaderRow, Row(3, <<"H", "W", "2">>, <<"N", "o", " ", "S", "u", "b", "m", "i", "s", "s", "i", "o", "n">>), FooterRow >>]

CoursePageEmpty == [react |-> NoDiv, rows |-> <<>>]

CoursePages ==
  {CoursePageInstructor, CoursePageStudent, CoursePageOddTitle, CoursePageEmpty}

CourseA == <<"1">>
CourseB == <<"2">>
NoArg == <<>>

Op(op, courseId, part) == [op |-> op, courseId |-> courseId, part |-> part]

\* the public operations with the arguments they are called with
AllOps ==
  { Op("getCourses", NoArg, NoArg),
    Op("getCourseByName", NoArg, <<"c", "s">>),
    Op("getAssignments", CourseA, NoArg),
    Op("getAssignmentByName", CourseA, <<"h", "w">>),
    Op("search", NoArg, <<"M", "y", " ", "c", "o", "u", "r", "s", "e", "s">>),
    Op("search", NoArg, <<"g", "r", "a", "d", "e">>),
    Op("search", NoArg, <<"h", "i">>) }

\* more account pages: both role sections and "Your Courses" (ids 5 and 1 in
\* the order of the page); "Your Courses" alone without the button; a
\* student heading without a course list, and "Your Courses"
ParserAccountPages ==
  LET fall == <<"F", "a", "l", "l", " ", "2", "0", "2", "4">>
      c1 == Anchor(<<"/", "c", "o", "u", "r", "s", "e", "s", "/", "1">>, <<"C", "S", "1">>, <<"I", "n", "t", "r", "o">>)
      c2 == Anchor(<<"/", "c", "o", "u", "r", "s", "e", "s", "/", "2">>, <<"B", "I", "O">>, <<"B", "i", "o", "l", "o", "g", "y">>)
      c3 == Anchor(<<"/", "c", "o", "u", "r", "s", "e", "s", "/", "3">>, <<"C", "S", "9">>, <<"A", "l", "g", "o">>)
      c5 == Anchor(<<"/", "c", "o", "u", "r", "s", "e", "s", "/", "5">>, <<"M", "a", "t", "h">>, <<"C", "a", "l", "c">>)
  IN AccountPages \cup
     { [instructor |-> Section(FALSE, << [text |-> fall, anchors |-> <<c3>>] >>),
        student |-> Section(FALSE, << [text |-> fall, anchors |-> <<c5, c1>>] >>),
        yours |-> Section(TRUE, << [text |-> fall, anchors |-> <<c2>>] >>)],
       [instructor |-> NoSection, student |-> NoSection,
        yours |-> Section(FALSE, << [text |-> fall, anchors |-> <<c2, c1>>] >>)],
       [instructor |-> NoSection, student |-> Section(FALSE, NoList),
        yours |-> Section(TRUE, << [text |-> fall, anchors |-> <<c3>>] >>)] }

\* more course pages: a data block without assignments, a data block that
\* JSON.parse rejects and a data block without table_data, each with a
\* table; a table with rows of two cells and points in several forms
ParserCoursePages ==
  LET hw2 == Row(3, <<"H", "W", "2">>, <<"N", "o", " ", "S", "u", "b", "m", "i", "s", "s", "i", "o", "n">>)
      hw3 == Row(3, <<" ", "H", "W", "3">>, <<" ", "7", " ", "/", " ", "x", " ">>)
      hw4 == Row(3, <<"H", "W", "4">>, <<"8", "/", "1", "0">>)
      two == Row(2, <<"H", "W", "5">>, <<"8", " ", "/", " ", "1", "0">>)
      table == << HeaderRow, hw2, FooterRow >>
  IN CoursePages \cup
     { [react |-> [div |-> TRUE,
                   props |-> [json |-> TRUE,
                              table_data |-> << Item("section", <<"W", "e", "e", "k", " ", "1">>) >>]],
        rows |-> table],
       [react |-> [div |-> TRUE, props |-> [json |-> FALSE]], rows |-> table],
       [react |-> [div |-> TRUE,
                   props |-> [json |-> TRUE, table_data |-> NoTableData]],
        rows |-> table],
       [react |-> NoDiv, rows |-> << HeaderRow, two, hw3, hw4, hw2, FooterRow >>],
       [react |-> NoDiv, rows |-> << hw2 >>] }

\* the operations, and the pages they are answered with, of calls that run
\* concurrently
\* the operations on the account page: names in other case, names of
\* several courses, queries with keywords of several sets
ParserOps ==
  { Op("getCourses", NoArg, NoArg),
    Op("getCourseByName", NoArg, <<"c", "s">>),
    Op("getCourseByName", NoArg, <<"A", "L", "G">>),
    Op("getCourseByName", NoArg, <<"c">>),
    Op("getCourseByName", NoArg, <<"z", "z">>),
    Op("search", NoArg, <<"l", "i", "s", "t", " ", "c", "o", "u", "r", "s", "e", "s", " ", "h", "o", "m", "e", "w", "o", "r", "k">>),
    Op("search", NoArg, <<"H", "o", "m", "e", "w", "o", "r", "k", " ", "g", "r", "a", "d", "e">>),
    Op("search", NoArg, <<"S", "C", "O", "R", "E">>),
    Op("search", NoArg, <<"c", "o", "u", "r", "s", "e", "s">>) }

CoreOps == { Op("getCourses", NoArg, NoArg) }
CoreAccountPages == {PageStudent, PageYours}
CoreCoursePages == {CoursePageStudent, CoursePageEmpty}

(***************************************************************************)
(* State                                                                   *)
(*   now              the clock the cache reads                            *)
(*   cache            WorkerCache: key -> [value, expiresAt]               *)
(*   isAuthenticated, csrfToken, cookies   the fields of GradescopeApi     *)
(*   calls            per call slot: where the call stands (pc), its       *)
(*                    arguments, the authenticity token it holds, the      *)
(*                    headers of its request in flight (sent), its result, *)
(*                    and a record of what it did: the requests it issued  *)
(*                    (nRoot, nLogin, nRedirect, nData), the status of the *)
(*                    latest response and of the login response, where it  *)
(*                    returned (endedAt) and the flag as it left it        *)
(*                    (endFlag), ghost.session as the call found it when   *)
(*                    it missed the cache (entrySession), the value it is  *)
(*                    to be served from the cache (expect), whether the    *)
(*                    cache answered (hit), whether no other call was in   *)
(*                    flight during it (solo), and while its data request  *)
(*                    is in flight whether the page of its redirect GET    *)
(*                    held a csrf-token (meta), the page its data request  *)
(*                    read (page), and from its root response to its login *)
(*                    response the jar as the root response left it        *)
(*                    (rootJar), and while its data request is in flight   *)
(*                    whether another call has completed a handshake since *)
(*                    it was sent (stale)                                  *)
(*   credsValid       whether the site accepts the configured credentials  *)
(*   ghost            what has happened to the client: whether a login     *)
(*                    POST was ever answered 302 (login302); whether the   *)
(*                    latest of "a handshake succeeded" and "a data        *)
(*                    response was 401" is the former ("established") or   *)
(*                    the latter ("invalidated"), or neither happened      *)
(*                    ("none"); the courses value a fetch stored last and  *)
(*                    when, unless the cache was cleared since (lastOk)    *)
(*   cacheLog         history kept by the specifications that need it: for *)
(*                    the cache alone, the latest set of each key and the  *)
(*                    latest get; whether a clear_cache ever removed an    *)
(*                    entry (cleared); for the cookie jar alone, the       *)
(*                    responses it ingested since it was new or cleared    *)
(*                    (ingested); for the tool layer, the session: the     *)
(*                    entry point that created it, its configuration, its  *)
(*                    tools and what its tools did (session)               *)
(*   sessions         the process behind the HTTP handler: the Map of      *)
(*                    sessions (map: id -> the clients and tools that      *)
(*                    createTools built, with the cache, the flag and the  *)
(*                    jar they own), the cache of the module cache.js      *)
(*                    (module), the ids randomUUID has returned (used),    *)
(*                    the POST in flight (request) and the latest answer   *)
(*                    of the handler (reply)                               *)
(***************************************************************************)
NoRequest == [cookie |-> <<>>, token |-> <<>>]
NoFetch == [stored |-> FALSE]

IdleCall ==
  [pc |-> "idle", op |-> "none", courseId |-> NoArg, part |-> NoArg,
   authToken |-> <<>>, sent |-> NoRequest, result |-> Pending,
   nRoot |-> 0, nLogin |-> 0, nRedirect |-> 0, nData |-> 0,
   status |-> 0, endedAt |-> "idle",
   loginStatus |-> 0, endFlag |-> FALSE, entrySession |-> "n/a",
   expect |-> NoFetch, hit |-> FALSE, solo |-> TRUE, meta |-> "n/a",
   page |-> Absent, rootJar |-> <<>>, stale |-> FALSE]

NoGet == [got |-> FALSE]
NoSet == [set |-> FALSE]
\* no session was created yet
NoSession == [created |-> FALSE]

\* no request of the HTTP handler is in flight; none was answered yet
NoPost == [method |-> "none"]
NoReply == [kind |-> "none"]

\* the process before its first request: the Map of sessions is empty, the
\* cache of the module cache.js is empty, no id was issued
NoSessions ==
  [map |-> CacheClear, module |-> CacheClear, used |-> {},
   request |-> NoPost, reply |-> NoReply]

Init ==
  /\ now = 0
  /\ cache = CacheClear
  /\ isAuthenticated = FALSE
  /\ csrfToken = <<>>
  /\ cookies = <<>>
  /\ calls = [c \in Calls |-> IdleCall]
  /\ credsValid \in BOOLEAN
  /\ ghost = [login302 |-> FALSE, session |-> "none", lastOk |-> NoFetch]
  /\ cacheLog = [sets |-> CacheClear, get |-> NoGet, lastSet |-> NoSet,
                 cleared |-> FALSE, ingested |-> <<>>, session |-> NoSession]
  /\ sessions = NoSessions

InFlight(c) == calls[c].pc \notin {"idle", "done"}

(***************************************************************************)
(* The decisions of the client                                             *)
(***************************************************************************)
\* a client that never runs the handshake
NeverHandshake(flag) == FALSE

\* a client that runs the handshake only when the flag is set
HandshakeWhenSet(flag) == flag

\* authenticate() returns at once when the flag is set
NeedsHandshake(flag) == ~flag

\* response.ok
\* a client that takes every response for a success
ResponseAlwaysOk(status) == TRUE

ResponseOk(status) == status >= 200 /\ status <= 299

\* a check that lets every token through
TokenNeverMissing(token) == FALSE

\* !authToken
TokenMissing(token) == Falsy(token)

\* a login that also takes 200 for success
LoginSucceededOn200(status) == status = 302 \/ status = 200

\* the login POST succeeded
LoginSucceeded(status) == status = 302

\* the data response that invalidates the session
\* a client that takes every error status for a lost session
UnauthorizedOnError(status) == status >= 400

Unauthorized(status) == status = 401

\* a flag that survives a 401
FlagKept(flag, status) == flag

\* a flag that any failed data response resets
FlagResetOnError(flag, status) == IF status = 200 THEN flag ELSE FALSE

\* the flag after a data response
FlagAfterData(flag, status) == IF Unauthorized(status) THEN FALSE ELSE flag

\* a call that starts the handshake again after a 401
AfterFailedDataRetry(status) == IF status = 401 THEN "root" ELSE "done"

\* where the call stands after a data response that is not served: it returns
AfterFailedData(status) == "done"

\* the token after step 3 read a page
CsrfAfterPage(old, meta) == IF Falsy(meta) THEN old ELSE meta

\* a key per public operation
KeyOfOperation(o) == CacheKey(o.op, o.courseId)

\* the cache key of an operation
KeyOf(o) ==
  IF o.op \in {"getAssignments", "getAssignmentByName"}
  THEN CacheKey("gradescope_assignments", o.courseId)
  ELSE CacheKey("gradescope_courses", NoSubKey)

\* what the public operation returns, given what the operation it wraps
\* (getGradescopeCourses or getGradescopeAssignments) returned
Outcome(o, inner) ==
  CASE o.op = "getCourseByName" -> CourseByName(inner, o.part)
    [] o.op = "getAssignmentByName" -> AssignmentByName(inner, o.part)
    [] o.op = "search" -> SearchResult(o.part, inner)
    [] OTHER -> inner

(***************************************************************************)
(* Actions.  An action is the code of one call between two awaits; the     *)
(* answer of the site is chosen with \E.                                   *)
(***************************************************************************)
\* the classifier applied to the queries of the operations, computed once
AnalysisOf ==
  [q \in {o.part : o \in AllOps \cup ParserOps} |-> analyzeGradescopeQuery(q)]

\* the call returns
Return(c, inner, status, flag) ==
  calls' = [calls EXCEPT ![c].pc = "done",
                         ![c].endedAt = calls[c].pc,
                         ![c].endFlag = flag,
                         ![c].result = Outcome(calls[c], inner),
                         ![c].authToken = <<>>,
                         ![c].sent = NoRequest,
                         ![c].meta = "n/a",
                         ![c].rootJar = <<>>,
                         ![c].stale = FALSE,
                         ![c].status = status]

\* the headers of a request: the jar serialized, and the token
Headers(jar, token) == [cookie |-> getCookieString(jar), token |-> token]

\* the call with its data request sent (makeAuthenticatedRequest, from the
\* return of authenticate() to the await of the fetch)
WithDataSent(call, jar, token) ==
  [call EXCEPT !.pc = "data", !.authToken = <<>>, !.status = 0,
               !.nData = call.nData + 1,
               !.sent = Headers(jar, IF token # <<>> THEN token ELSE <<>>)]

\* the call with the root GET of the handshake sent
WithRootSent(call) ==
  [call EXCEPT !.pc = "root", !.status = 0, !.nRoot = call.nRoot + 1,
               !.sent = NoRequest]

\* a public operation is called: the cache is read, and on a miss the call
\* runs up to its first fetch (the root GET of the handshake, or the data
\* request when the session is authenticated)
Start(c, ops) ==
  /\ ~InFlight(c)
  /\ c = 2 => InFlight(1)
  /\ \E o \in ops :
       LET fresh == [IdleCall EXCEPT !.op = o.op, !.courseId = o.courseId,
                                     !.part = o.part,
                                     !.solo = \A d \in Calls \ {c} : ~InFlight(d)]
           others == [d \in Calls |->
                        IF d # c /\ InFlight(d)
                        THEN [calls[d] EXCEPT !.solo = FALSE] ELSE calls[d]]
           got == CacheGet(cache, KeyOf(o), now)
           served == /\ o.op \notin {"getAssignments", "getAssignmentByName"}
                     /\ ghost.lastOk.stored
                     /\ now < ghost.lastOk.at + DefaultTTL
           missed == [fresh EXCEPT !.entrySession = ghost.session,
                                   !.expect = IF served THEN ghost.lastOk ELSE NoFetch]
       IN IF o.op = "search" /\ AnalysisOf[o.part].type = "null"
          THEN /\ calls' = [others EXCEPT ![c] =
                   [fresh EXCEPT !.pc = "done", !.endedAt = "start",
                                 !.endFlag = isAuthenticated,
                                 !.result = SearchResult(o.part, Absent)]]
               /\ UNCHANGED cache
          ELSE /\ cache' = CacheAfterGet(cache, KeyOf(o), now)
               /\ IF got.kind = "value"
                  THEN calls' = [others EXCEPT ![c] =
                         [fresh EXCEPT !.pc = "done", !.endedAt = "start",
                                       !.endFlag = isAuthenticated,
                                       !.hit = TRUE,
                                       !.expect = IF served THEN ghost.lastOk
                                                  ELSE NoFetch,
                                       !.result = Outcome(o, got)]]
                  ELSE IF NeedsHandshake(isAuthenticated)
                  THEN calls' = [others EXCEPT ![c] = WithRootSent(missed)]
                  ELSE calls' = [others EXCEPT ![c] =
                         WithDataSent(missed, cookies, csrfToken)]
  /\ UNCHANGED <<now, isAuthenticated, csrfToken, cookies, credsValid, ghost,
                 cacheLog>>
  /\ UNCHANGED sessions

\* getAuthTokenAndInitSession: the root GET is answered
RootResp(c) ==
  /\ calls[c].pc = "root"
  /\ \E r \in Responses(RootStatuses) :
       IF r.failed
       THEN /\ Return(c, Absent, 0, isAuthenticated)
            /\ UNCHANGED cookies
       ELSE IF ~ResponseOk(r.status)
       THEN /\ Return(c, Absent, r.status, isAuthenticated)
            /\ UNCHANGED cookies
       ELSE /\ cookies' = setCookiesFromHeaders(cookies, r.setCookie)
            /\ calls' = [calls EXCEPT ![c].pc = "rootBody",
                                      ![c].rootJar = cookies',
                                      ![c].status = r.status]
  /\ UNCHANGED <<now, cache, isAuthenticated, csrfToken, credsValid, ghost,
                 cacheLog>>
  /\ UNCHANGED sessions

\* getAuthTokenAndInitSession: the page is read and the token extracted;
\* with a token, loginWithCredentials sends the POST with the jar as it is
RootBody(c) ==
  /\ calls[c].pc = "rootBody"
  /\ \/ Return(c, Absent, calls[c].status, isAuthenticated)
     \/ \E token \in RootTokens :
          IF TokenMissing(token)
          THEN Return(c, Absent, calls[c].status, isAuthenticated)
          ELSE calls' = [calls EXCEPT
                 ![c].pc = "login",
                 ![c].authToken = token,
                 ![c].status = 0,
                 ![c].nLogin = calls[c].nLogin + 1,
                 ![c].sent = Headers(cookies, token)]
  /\ UNCHANGED <<now, cache, isAuthenticated, csrfToken, cookies, credsValid,
                 ghost, cacheLog>>
  /\ UNCHANGED sessions

\* authenticate() succeeded: the flag is set and the data request is sent;
\* the data requests of the other calls still in flight were sent under an
\* earlier session
Authenticated(c, call, jar, token) ==
  /\ isAuthenticated' = TRUE
  /\ calls' = [d \in Calls |->
                IF d = c THEN WithDataSent(call, jar, token)
                ELSE IF calls[d].pc = "data"
                THEN [calls[d] EXCEPT !.stale = TRUE]
                ELSE calls[d]]

\* loginWithCredentials: the login POST is answered
LoginResp(c) ==
  /\ calls[c].pc = "login"
  /\ \E r \in Responses(LoginStatuses), location \in BOOLEAN :
       LET answered == [calls[c] EXCEPT
                          !.rootJar = <<>>,
                          !.loginStatus = IF r.failed THEN 0 ELSE r.status]
           established == ~r.failed /\ r.status = 302 /\ ~location
       IN
       IF r.failed
       THEN /\ Return(c, Absent, 0, isAuthenticated)
            /\ UNCHANGED <<cookies, isAuthenticated, ghost>>
       ELSE /\ r.status = 302 => credsValid
            /\ cookies' = setCookiesFromHeaders(cookies, r.setCookie)
            /\ ghost' = [ghost EXCEPT
                  !.login302 = ghost.login302 \/ r.status = 302,
                  !.session = IF established THEN "established" ELSE ghost.session]
            /\ IF ~LoginSucceeded(r.status)
               THEN /\ calls' = [calls EXCEPT
                          ![c] = [answered EXCEPT
                                    !.pc = "done", !.endedAt = "login",
                                    !.endFlag = isAuthenticated,
                                    !.result = Outcome(calls[c], Absent),
                                    !.authToken = <<>>, !.sent = NoRequest,
                                    !.status = r.status]]
                    /\ UNCHANGED isAuthenticated
               ELSE IF location
               THEN /\ calls' = [calls EXCEPT
                          ![c] = [answered EXCEPT
                                    !.pc = "redirect",
                                    !.authToken = <<>>,
                                    !.status = 0,
                                    !.nRedirect = calls[c].nRedirect + 1,
                                    !.sent = Headers(cookies', <<>>)]]
                    /\ UNCHANGED isAuthenticated
               ELSE Authenticated(c, answered, cookies', csrfToken)
  /\ UNCHANGED <<now, cache, csrfToken, credsValid, cacheLog>>
  /\ UNCHANGED sessions

\* extractCSRFToken: the redirect GET is answered
RedirectResp(c) ==
  /\ calls[c].pc = "redirect"
  /\ \E r \in Responses(RedirectStatuses) :
       IF r.failed \/ ~ResponseOk(r.status)
       THEN /\ Authenticated(c, calls[c], cookies, csrfToken)
            /\ ghost' = [ghost EXCEPT !.session = "established"]
            /\ UNCHANGED cookies
       ELSE /\ cookies' = setCookiesFromHeaders(cookies, r.setCookie)
            /\ calls' = [calls EXCEPT ![c].pc = "redirectBody",
                                      ![c].sent = NoRequest,
                                      ![c].status = r.status]
            /\ UNCHANGED <<isAuthenticated, ghost>>
  /\ UNCHANGED <<now, cache, csrfToken, credsValid, cacheLog>>
  /\ UNCHANGED sessions

\* extractCSRFToken: the page is read and the csrf-token meta tag looked up
RedirectBody(c) ==
  /\ calls[c].pc = "redirectBody"
  /\ \/ /\ Authenticated(c, calls[c], cookies, csrfToken)
        /\ UNCHANGED csrfToken
     \/ \E meta \in CsrfMetas :
          /\ csrfToken' = CsrfAfterPage(csrfToken, meta)
          /\ Authenticated(c, [calls[c] EXCEPT
                                 !.meta = IF meta \in {Null, <<>>} THEN "none"
                                          ELSE "found"],
                           cookies, csrfToken')
  /\ ghost' = [ghost EXCEPT !.session = "established"]
  /\ UNCHANGED <<now, cache, cookies, credsValid, cacheLog>>
  /\ UNCHANGED sessions

\* makeAuthenticatedRequest: the data request is answered
DataResp(c) ==
  /\ calls[c].pc = "data"
  /\ \E r \in Responses(DataStatuses) :
       IF r.failed
       THEN /\ Return(c, Absent, 0, isAuthenticated)
            /\ UNCHANGED <<cookies, isAuthenticated, ghost>>
       ELSE /\ cookies' = setCookiesFromHeaders(cookies, r.setCookie)
            /\ isAuthenticated' = FlagAfterData(isAuthenticated, r.status)
            /\ ghost' = [ghost EXCEPT
                  !.session = IF r.status = 401 THEN "invalidated" ELSE ghost.session]
            /\ IF Unauthorized(r.status) \/ ~ResponseOk(r.status)
               THEN IF AfterFailedData(r.status) = "done"
                    THEN Return(c, Absent, r.status,
                                FlagAfterData(isAuthenticated, r.status))
                    ELSE calls' = [calls EXCEPT ![c] = WithRootSent(calls[c])]
               ELSE calls' = [calls EXCEPT ![c].pc = "dataBody",
                                           ![c].sent = NoRequest,
                                           ![c].meta = "n/a",
                                           ![c].stale = FALSE,
                                           ![c].status = r.status]
  /\ UNCHANGED <<now, cache, csrfToken, credsValid, cacheLog>>
  /\ UNCHANGED sessions

\* the parsers applied to the pages of the site, computed once
CoursesOf == [page \in ParserAccountPages |-> SerializeCourses(page)]
AssignmentsOf == [page \in ParserCoursePages |-> AssignmentsOfPage(page)]

\* the value getGradescopeCourses or getGradescopeAssignments builds from a page
Parse(o, page) ==
  IF o.op \in {"getAssignments", "getAssignmentByName"}
  THEN AssignmentsOf[page]
  ELSE CoursesOf[page]

\* getGradescopeCourses / getGradescopeAssignments: the page is read, parsed
\* and stored in the cache, and the operation returns
DataBody(c, accountPages, coursePages) ==
  /\ calls[c].pc = "dataBody"
  /\ \/ /\ Return(c, Absent, calls[c].status, isAuthenticated)
        /\ UNCHANGED <<cache, ghost>>
     \/ \E page \in IF calls[c].op \in {"getAssignments", "getAssignmentByName"}
                    THEN coursePages ELSE accountPages :
          LET v == Parse(calls[c], page) IN
          /\ cache' = CacheSet(cache, KeyOf(calls[c]), v, DefaultTTL, now)
          /\ ghost' = IF calls[c].op \in {"getAssignments", "getAssignmentByName"}
                      THEN ghost
                      ELSE [ghost EXCEPT
                              !.lastOk = [stored |-> TRUE, value |-> v, at |-> now]]
          /\ calls' = [calls EXCEPT ![c].pc = "done",
                                    ![c].endedAt = "dataBody",
                                    ![c].endFlag = isAuthenticated,
                                    ![c].result = Outcome(calls[c], Value(v)),
                                    ![c].page = page]
  /\ UNCHANGED <<now, isAuthenticated, csrfToken, cookies, credsValid, cacheLog>>
  /\ UNCHANGED sessions

\* the clear_cache tool
ClearCache ==
  /\ cache' = CacheClear
  /\ ghost' = [ghost EXCEPT !.lastOk = NoFetch]
  /\ UNCHANGED <<now, isAuthenticated, csrfToken, cookies, calls, credsValid, cacheLog>>
  /\ UNCHANGED sessions

\* time passes
Tick ==
  /\ now < MaxTime
  /\ now' = now + 1
  /\ UNCHANGED <<cache, isAuthenticated, csrfToken, cookies, calls, credsValid,
                 ghost, cacheLog>>
  /\ UNCHANGED sessions

\* two calls of one client in flight, within one tick of the clock
Next ==
  \/ \E c \in Calls : Start(c, CoreOps)
  \/ \E c \in Calls : RootResp(c)
  \/ \E c \in Calls : RootBody(c)
  \/ \E c \in Calls : LoginResp(c)
  \/ \E c \in Calls : RedirectResp(c)
  \/ \E c \in Calls : RedirectBody(c)
  \/ \E c \in Calls : DataResp(c)
  \/ \E c \in Calls : DataBody(c, CoreAccountPages, CoreCoursePages)
  \/ ClearCache

Spec == Init /\ [][Next]_vars

\* one call at a time, every public operation
NextSeq ==
  \/ Start(1, AllOps)
  \/ RootResp(1)
  \/ RootBody(1)
  \/ LoginResp(1)
  \/ RedirectResp(1)
  \/ RedirectBody(1)
  \/ DataResp(1)
  \/ DataBody(1, AccountPages, CoursePages)
  \/ ClearCache
  \/ Tick

SeqSpec == Init /\ [][NextSeq]_vars

\* one call at a time: the operations on the account page, every account
\* page
NextParser ==
  \/ Start(1, ParserOps)
  \/ RootResp(1)
  \/ RootBody(1)
  \/ LoginResp(1)
  \/ RedirectResp(1)
  \/ RedirectBody(1)
  \/ DataResp(1)
  \/ DataBody(1, ParserAccountPages, {})

ParserSpec == Init /\ [][NextParser]_vars

\* one call at a time: getGradescopeAssignments of one course, every course
\* page
NextAssignments ==
  \/ Start(1, { Op("getAssignments", CourseA, NoArg) })
  \/ RootResp(1)
  \/ RootBody(1)
  \/ LoginResp(1)
  \/ RedirectResp(1)
  \/ RedirectBody(1)
  \/ DataResp(1)
  \/ DataBody(1, {}, ParserCoursePages)

AssignmentsSpec == Init /\ [][NextAssignments]_vars

(***************************************************************************)
(* Properties of the client                                                *)
(***************************************************************************)
Requests(k) == k.nRoot + k.nLogin + k.nRedirect + k.nData

\* C1: a login POST answered with any status but 302 ends the call there:
\* the call returns absent, has sent neither the redirect GET nor a data
\* request, and (no other call being in flight meanwhile) leaves the flag
\* isAuthenticated false.
LoginOnly302 ==
  \A c \in Calls :
    LET k == calls[c] IN
    k.loginStatus \notin {0, 302} =>
      /\ k.pc = "done" /\ k.endedAt = "login"
      /\ k.result = Absent
      /\ k.nRedirect = 0 /\ k.nData = 0
      /\ k.solo => ~k.endFlag

\* a login POST answered 200
LoginAnswered200 ==
  \E c \in Calls :
    calls[c].loginStatus = 200 /\ calls[c].solo /\ calls[c].pc = "done"

\* C2: a call whose data request is answered 401 returns what its operation
\* makes of absent (absent itself, but for search) after that one data
\* request, with the flag false; the flag stays false until a handshake
\* succeeds; and the next call that misses the cache starts with the root GET
\* and sends a data request only after its own login POST returned 302.
DataUnauthorized ==
  LET k == calls[1] IN
  /\ k.pc = "done" /\ k.endedAt = "data" /\ k.status = 401 =>
       /\ ~k.endFlag
       /\ k.nData = 1
       /\ k.result = IF k.op = "search" THEN SearchResult(k.part, Absent)
                     ELSE Absent
  /\ ghost.session = "invalidated" => ~isAuthenticated
  /\ k.entrySession = "invalidated" =>
       /\ k.nRoot = 1
       /\ k.nData >= 1 => k.nLogin = 1 /\ k.loginStatus = 302
       /\ k.nRedirect >= 1 => k.nLogin = 1 /\ k.loginStatus = 302

\* after a 401, a call has run the whole handshake again and sent its data
\* request
RehandshakeAfter401 ==
  /\ calls[1].entrySession = "invalidated"
  /\ calls[1].pc = "data"
  /\ calls[1].nRoot = 1 /\ calls[1].nLogin = 1 /\ calls[1].nRedirect = 1

\* C3: from a successful handshake until a data response is 401 the flag is
\* set, and a call that misses the cache in that span sends no handshake
\* request and one data request, which carries the jar and the token as
\* they are stored.
SessionReused ==
  LET k == calls[1] IN
  /\ ghost.session = "established" => isAuthenticated
  /\ k.entrySession = "established" =>
       /\ k.nRoot = 0 /\ k.nLogin = 0 /\ k.nRedirect = 0
       /\ k.nData = 1
       /\ k.pc = "data" => k.sent = [cookie |-> getCookieString(cookies),
                                     token |-> csrfToken]

\* a call served by its data request alone, with a jar and a token stored
SecondCallNoHandshake ==
  /\ calls[1].entrySession = "established"
  /\ calls[1].pc = "data"
  /\ calls[1].sent.cookie # <<>>
  /\ calls[1].sent.token # <<>>

\* C4: a call has sent a data request only if a login POST of the client was
\* answered 302 before, and with credentials the site never answers with 302
\* no call ever sends one.
DataOnlyAfter302 ==
  /\ \A c \in Calls : calls[c].nData >= 1 => ghost.login302
  /\ ~credsValid => \A c \in Calls : calls[c].nData = 0

\* a data request of a call that did not log in itself
DataAfterLoginOfOtherCall ==
  \E c \in Calls :
    calls[c].pc = "data" /\ calls[c].nLogin = 0 /\ ghost.login302

\* C5: the login POST is sent only after a root GET answered 2xx whose page
\* held a token; a call whose step 1 failed has sent no login POST and no
\* data request, returns absent and (no other call being in flight
\* meanwhile) leaves the flag false.
RootFailureStops ==
  \A c \in Calls :
    LET k == calls[c] IN
    /\ k.pc = "rootBody" => k.status >= 200 /\ k.status <= 299
    /\ k.pc = "login" => k.authToken # Null /\ k.authToken # <<>>
    /\ k.nLogin >= 1 => k.nRoot = 1
    /\ k.pc = "done" /\ k.endedAt \in {"root", "rootBody"} =>
         /\ k.nLogin = 0 /\ k.nRedirect = 0 /\ k.nData = 0
         /\ k.result = Absent
         /\ k.solo => ~k.endFlag

\* a root GET answered 500
RootAnswered500 ==
  \E c \in Calls :
    /\ calls[c].pc = "done" /\ calls[c].endedAt = "root"
    /\ calls[c].status = 500 /\ calls[c].solo

\* how far a call is from its return
Rank(pc) ==
  CASE pc = "root" -> 7
    [] pc = "rootBody" -> 6
    [] pc = "login" -> 5
    [] pc = "redirect" -> 4
    [] pc = "redirectBody" -> 3
    [] pc = "data" -> 2
    [] pc = "dataBody" -> 1
    [] OTHER -> 0

\* C6: a call sends each of the root GET, the login POST, the redirect GET
\* and the data request at most once, so at most four requests, and every
\* step of a call in flight brings it nearer to its return: no step goes
\* back to an earlier request.
CallBounded ==
  /\ [](LET k == calls[1] IN
          /\ k.nRoot <= 1 /\ k.nLogin <= 1 /\ k.nRedirect <= 1 /\ k.nData <= 1
          /\ Requests(k) <= 4)
  /\ [][InFlight(1) /\ calls'[1] # calls[1] =>
          Rank(calls'[1].pc) < Rank(calls[1].pc)]_vars

\* a call that returned after four requests
FourRequests ==
  calls[1].pc = "done" /\ Requests(calls[1]) = 4

\* C7: no call ends with an exception.
NoCallThrew ==
  \A c \in Calls : calls[c].result # Threw

\* C9: a call for the courses within the ttl of the latest successful fetch
\* of the courses (no clear since) is served from the cache: it sends no
\* request and returns what its operation makes of the value fetched.
CoursesCacheHit ==
  LET k == calls[1] IN
  k.expect.stored =>
    /\ k.hit
    /\ Requests(k) = 0
    /\ k.result = Outcome(k, Value(k.expect.value))
    /\ k.op = "getCourses" => k.result = Value(k.expect.value)

\* a second getCourses served from the cache, later than the fetch
SecondGetCoursesHit ==
  /\ calls[1].op = "getCourses"
  /\ calls[1].hit
  /\ calls[1].expect.stored
  /\ now > calls[1].expect.at

\* C13: a call that finds the session invalidated by a 401 starts its
\* handshake with an empty jar.
JarEmptyAtReauth ==
  calls[1].entrySession = "invalidated" /\ calls[1].pc = "root" =>
    cookies = <<>>

\* C14: a data request sent after a handshake whose redirect page held no
\* csrf-token carries no X-CSRF-Token header, also when an earlier session
\* had a token.
NoCsrfNoHeader ==
  calls[1].pc = "data" /\ calls[1].meta = "none" =>
    calls[1].sent.token = <<>>

\* C16: every call that misses the cache while the client is unauthenticated
\* sends a root GET of its own, whether or not a handshake of another call is
\* in flight, and goes on to its own login POST without regard to the other.
HandshakePerCall ==
  \A c \in Calls :
    calls[c].entrySession \in {"none", "invalidated"} =>
      /\ calls[c].nRoot = 1
      /\ calls[c].pc \in {"login", "redirect", "redirectBody"} =>
           calls[c].nLogin = 1

\* two login POSTs in flight while the client is unauthenticated
TwoLoginPosts ==
  /\ calls[1].pc = "login" /\ calls[2].pc = "login"
  /\ ~isAuthenticated

\* C17: a call returns a value it did not get from the cache only after a
\* data request of its own, and when it returns the cache holds that value;
\* the entry of the courses is the one stored last, until a clear.
LastWriteRemains ==
  /\ [](\A c \in Calls :
          calls[c].pc = "done" /\ ~calls[c].hit /\ calls[c].result.kind = "value" =>
            calls[c].nData = 1)
  /\ [](ghost.lastOk.stored =>
          /\ <<"gradescope_courses", NoSubKey>> \in DOMAIN cache
          /\ cache[<<"gradescope_courses", NoSubKey>>].value = ghost.lastOk.value)
  /\ [][\A c \in Calls :
          calls[c].pc = "dataBody" /\ calls'[c].pc = "done"
            /\ calls'[c].result.kind = "value" =>
              /\ <<"gradescope_courses", NoSubKey>> \in DOMAIN cache'
              /\ cache'[<<"gradescope_courses", NoSubKey>>].value = calls'[c].result.v]_vars

\* two calls that missed together returned different values; the cache holds
\* the second
TwoWritersDiffer ==
  /\ \A c \in Calls :
       /\ calls[c].pc = "done" /\ ~calls[c].solo
       /\ calls[c].endedAt = "dataBody" /\ calls[c].result.kind = "value"
  /\ calls[1].result # calls[2].result
  /\ ghost.lastOk.stored
  /\ cache[<<"gradescope_courses", NoSubKey>>].value = ghost.lastOk.value
  /\ Value(ghost.lastOk.value) \in {calls[1].result, calls[2].result}

\* the clear_cache tool, with the clear of a cache that held an entry recorded
ClearCacheLogged ==
  /\ cache' = CacheClear
  /\ ghost' = [ghost EXCEPT !.lastOk = NoFetch]
  /\ cacheLog' = [cacheLog EXCEPT !.cleared = cacheLog.cleared \/ DOMAIN cache # {}]
  /\ UNCHANGED <<now, isAuthenticated, csrfToken, cookies, calls, credsValid>>
  /\ UNCHANGED sessions

\* getCourses one call at a time, the clear_cache tool and the clock
NextClear ==
  \/ Start(1, CoreOps)
  \/ RootResp(1)
  \/ RootBody(1)
  \/ LoginResp(1)
  \/ RedirectResp(1)
  \/ RedirectBody(1)
  \/ DataResp(1)
  \/ DataBody(1, CoreAccountPages, CoreCoursePages)
  \/ ClearCacheLogged
  \/ Tick

ClearSpec == Init /\ [][NextClear]_vars

\* no courses were stored since the cache was cleared of an entry
CoursesWiped == cacheLog.cleared /\ ~ghost.lastOk.stored

\* C11: clear_cache leaves no entry behind, whatever the cache held; and
\* from a clear that removed an entry (expired or not) until the courses are
\* stored again, get misses for the courses at every instant and a call for
\* them misses the cache and sends an upstream request.
ClearForcesFetch ==
  /\ [][ClearCacheLogged => DOMAIN cache' = {}]_vars
  /\ [](CoursesWiped =>
          \A t \in 0..MaxTime :
            CacheGet(cache, CacheKey("gradescope_courses", NoSubKey), t) = Absent)
  /\ [][CoursesWiped /\ ~InFlight(1) /\ calls'[1] # calls[1] =>
          ~calls'[1].hit /\ Requests(calls'[1]) >= 1]_vars

\* a getCourses after a clear of the courses it had cached, within their ttl
FetchAfterClear ==
  /\ CoursesWiped
  /\ calls[1].op = "getCourses"
  /\ calls[1].pc = "data"
  /\ now < DefaultTTL

(***************************************************************************)
(* The cache alone: set, get and clear with any key, value and ttl, and    *)
(* the clock.  cacheLog.sets remembers, per (category, subKey), the value  *)
(* of the latest set since the latest clear and the instant it expires;    *)
(* cacheLog.get the latest get with what it returned and what the sets     *)
(* remembered entitle it to; cacheLog.lastSet the pair of the latest set.  *)
(***************************************************************************)
CacheCategories == {"gradescope_assignments"}
CacheSubKeys == {NoSubKey, CourseA, CourseB}
CacheValues == {"v1", "v2"}
CachePairs == {[category |-> cat, subKey |-> sub] :
                 cat \in CacheCategories, sub \in CacheSubKeys}

Entitled(sets, pair, t) ==
  IF pair \in DOMAIN sets /\ t < sets[pair].expiry
  THEN Value(sets[pair].value) ELSE Absent

CacheSetOp ==
  /\ \E pair \in CachePairs, v \in CacheValues, ttl \in 1..MaxTTL :
       /\ cache' = CacheSet(cache, CacheKey(pair.category, pair.subKey), v, ttl, now)
       /\ cacheLog' = [sets |-> [q \in DOMAIN cacheLog.sets \cup {pair} |->
                                   IF q = pair
                                   THEN [value |-> v, expiry |-> now + ttl]
                                   ELSE cacheLog.sets[q]],
                       get |-> NoGet,
                       lastSet |-> [set |-> TRUE, pair |-> pair],
                       cleared |-> cacheLog.cleared,
                       ingested |-> cacheLog.ingested,
                       session |-> cacheLog.session]
  /\ UNCHANGED <<now, isAuthenticated, csrfToken, cookies, calls, credsValid, ghost>>
  /\ UNCHANGED sessions

CacheGetOp ==
  /\ \E pair \in CachePairs :
       LET k == CacheKey(pair.category, pair.subKey) IN
       /\ cache' = CacheAfterGet(cache, k, now)
       /\ cacheLog' = [cacheLog EXCEPT
            !.get = [got |-> TRUE,
                     result |-> CacheGet(cache, k, now),
                     expected |-> Entitled(cacheLog.sets, pair, now),
                     atExpiry |-> /\ pair \in DOMAIN cacheLog.sets
                                  /\ now = cacheLog.sets[pair].expiry],
            !.lastSet = NoSet]
  /\ UNCHANGED <<now, isAuthenticated, csrfToken, cookies, calls, credsValid, ghost>>
  /\ UNCHANGED sessions

CacheClearOp ==
  /\ cache' = CacheClear
  /\ cacheLog' = [sets |-> CacheClear, get |-> NoGet, lastSet |-> NoSet,
                  cleared |-> cacheLog.cleared, ingested |-> cacheLog.ingested,
                  session |-> cacheLog.session]
  /\ UNCHANGED <<now, isAuthenticated, csrfToken, cookies, calls, credsValid, ghost>>
  /\ UNCHANGED sessions

NextCache ==
  \/ CacheSetOp
  \/ CacheGetOp
  \/ CacheClearOp
  \/ Tick

\* the cache of a client in its initial state
CacheInit == Init /\ credsValid

CacheSpec == CacheInit /\ [][NextCache]_vars

(***************************************************************************)
(* Properties of the cache                                                 *)
(***************************************************************************)

\* C8: a get returns the value of the latest set of its key when the clock
\* is strictly before the instant of that set plus its ttl, and absent in
\* every other case (key never set, set before the latest clear, or expired).
CacheGetWithinTtl ==
  cacheLog.get.got => cacheLog.get.result = cacheLog.get.expected

\* a get at the very instant the entry expires, which misses
CacheGetAtExpiry ==
  /\ cacheLog.get.got
  /\ cacheLog.get.atExpiry
  /\ cacheLog.get.result = Absent

\* C10: a set changes what get returns, now and at every later instant, for
\* no other (category, subKey) than its own; a set without subKey and a set
\* with a subKey of the same category are such others to each other.
CacheSetKeepsOtherKeys ==
  [][ cacheLog'.lastSet.set /\ cacheLog' # cacheLog =>
        \A q \in CachePairs \ {cacheLog'.lastSet.pair} :
          \A t \in 0..(MaxTime + MaxTTL) :
            CacheGet(cache', CacheKey(q.category, q.subKey), t)
              = CacheGet(cache, CacheKey(q.category, q.subKey), t) ]_vars

\* a set with a subKey while the entries without subKey and with the other
\* subKey are live
CacheThreeEntries ==
  /\ cacheLog.lastSet.set
  /\ cacheLog.lastSet.pair.subKey = CourseA
  /\ \A q \in CachePairs :
       CacheGet(cache, CacheKey(q.category, q.subKey), now).kind = "value"
  /\ CacheGet(cache, CacheKey("gradescope_assignments", CourseA), now)
       # CacheGet(cache, CacheKey("gradescope_assignments", CourseB), now)
  /\ CacheGet(cache, CacheKey("gradescope_assignments", CourseA), now)
       # CacheGet(cache, CacheKey("gradescope_assignments", NoSubKey), now)


(***************************************************************************)
(* The cookie jar alone: responses are ingested one after the other.  A    *)
(* response is the sequence of the cookies the site sets, each sent as one *)
(* Set-Cookie header; cacheLog.ingested keeps the responses.               *)
(***************************************************************************)
\* a cookie the site sets, with the attributes that follow it in its header
SetCookie(name, value, attr) ==
  [eq |-> TRUE, name |-> name, value |-> value, attr |-> attr]

\* the Set-Cookie header lines of a response: name=value, or
\* name=value; attr, or the text of a header without "="
HeadersOf(response) ==
  [i \in 1..Len(response) |->
     LET ck == response[i]
     IN IF ~ck.eq THEN ck.name
        ELSE ck.name \o <<"=">> \o ck.value
             \o (IF ck.attr = <<>> THEN <<>> ELSE <<";", " ">> \o ck.attr)]

RespA1 == << SetCookie(<<"a">>, <<"1">>, <<>>) >>
RespA2B3 == << SetCookie(<<"a">>, <<"2">>, <<>>), SetCookie(<<"b">>, <<"3">>, <<>>) >>
\* one header "a=2; b=3"
RespA2AttrB3 == << SetCookie(<<"a">>, <<"2">>, <<"b", "=", "3">>) >>
\* besides these: no header, "b=1; Path=/", and a header without "="
JarResponses ==
  {<<>>, RespA1, RespA2B3, RespA2AttrB3,
   << SetCookie(<<"b">>, <<"1">>, <<"P", "a", "t", "h", "=", "/">>) >>,
   << [eq |-> FALSE, name |-> <<"j", "u", "n", "k">>, value |-> <<>>,
       attr |-> <<>>] >>}

JarIngest ==
  /\ Len(cacheLog.ingested) < MaxIngest
  /\ \E r \in JarResponses :
       /\ cookies' = setCookiesFromHeaders(cookies, HeadersOf(r))
       /\ cacheLog' = [cacheLog EXCEPT !.ingested = Append(@, r)]
  /\ UNCHANGED <<now, cache, isAuthenticated, csrfToken, calls, credsValid, ghost>>
  /\ UNCHANGED sessions

\* CookieManager.clear
JarClear ==
  /\ cookies' = <<>>
  /\ cacheLog' = [cacheLog EXCEPT !.ingested = <<>>]
  /\ UNCHANGED <<now, cache, isAuthenticated, csrfToken, calls, credsValid, ghost>>
  /\ UNCHANGED sessions

NextJar ==
  \/ JarIngest
  \/ JarClear

JarSpec == CacheInit /\ [][NextJar]_vars

\* the cookies of the responses ingested, in the order they were sent
RECURSIVE CookiesSent(_)
CookiesSent(responses) ==
  IF responses = <<>> THEN <<>>
  ELSE SelectSeq(Head(responses), LAMBDA ck : ck.eq) \o CookiesSent(Tail(responses))

\* the value sent last under a name
RECURSIVE LastValue(_, _)
LastValue(sent, name) ==
  IF sent[Len(sent)].name = name THEN sent[Len(sent)].value
  ELSE LastValue(SubSeq(sent, 1, Len(sent) - 1), name)

\* the names sent, each once, in the order of their first occurrence
RECURSIVE NamesSent(_)
NamesSent(sent) ==
  IF sent = <<>> THEN <<>>
  ELSE LET before == NamesSent(SubSeq(sent, 1, Len(sent) - 1))
           name == sent[Len(sent)].name
       IN IF \E i \in 1..Len(before) : before[i] = name THEN before
          ELSE Append(before, name)

Pair(name, value) == name \o <<"=">> \o value

\* C12 (as amended): the serialized jar holds, for every cookie sent, its
\* name with the value sent last under that name and with no value sent
\* earlier; so a=1 and then the two headers a=2 and b=3 give a=2 and b=3 and
\* not a=1.
LastWriteWins ==
  LET sent == CookiesSent(cacheLog.ingested)
      text == getCookieString(cookies)
  IN /\ \A i \in 1..Len(sent) :
          /\ Includes(text, Pair(sent[i].name, LastValue(sent, sent[i].name)))
          /\ sent[i].value # LastValue(sent, sent[i].name) =>
               ~Includes(text, Pair(sent[i].name, sent[i].value))
     /\ cacheLog.ingested = <<RespA1, RespA2B3>> =>
          /\ Includes(text, <<"a", "=", "2">>)
          /\ Includes(text, <<"b", "=", "3">>)
          /\ ~Includes(text, <<"a", "=", "1">>)

\* a=1, then the headers a=2 and b=3
IngestedA1ThenA2B3 ==
  cacheLog.ingested = <<RespA1, RespA2B3>>

\* C12 (as stated): a=1 and then the one header "a=2; b=3" give a=2 and b=3
\* and not a=1.
LastWriteWinsOneHeader ==
  cacheLog.ingested = <<RespA1, RespA2AttrB3>> =>
    /\ Includes(getCookieString(cookies), <<"a", "=", "2">>)
    /\ Includes(getCookieString(cookies), <<"b", "=", "3">>)
    /\ ~Includes(getCookieString(cookies), <<"a", "=", "1">>)

\* C15: the serialized jar is the names sent, in the order of their first
\* occurrence, each with "=" and the value sent last under it, joined by
\* "; "; it is the empty string when no cookie was sent.
SerializeInsertionOrder ==
  LET sent == CookiesSent(cacheLog.ingested)
      names == NamesSent(sent)
  IN /\ getCookieString(cookies)
          = Join([i \in 1..Len(names) |-> Pair(names[i], LastValue(sent, names[i]))],
                 <<";", " ">>)
     /\ sent = <<>> => getCookieString(cookies) = <<>>

\* a name first in the jar is written again after another name came in
FirstNameWrittenAgain ==
  /\ cacheLog.ingested = <<RespA2B3, RespA1>>
  /\ getCookieString(cookies) = <<"a", "=", "1", ";", " ", "b", "=", "3">>

(***************************************************************************)
(* The tool layer                                                          *)
(* Three entry points create a session from a configuration and register   *)
(* its tools: CanvasMcpAgent.init ("worker"), createStatelessServer        *)
(* ("index") and createTools ("http").  A configuration value is absent    *)
(* (Null), the empty string, or a non-empty string.  The session keeps     *)
(* whether the grading-site client was instantiated (gradescopeApi), the   *)
(* names of the registered tools, how often a tool called the LMS client   *)
(* (canvasCalls) and the latest tool called with its reply (last, reply).  *)
(***************************************************************************)
ConfigValues == {Null, <<>>, <<"k">>}

\* JavaScript truthiness of string | undefined
Truthy(s) == s # Null /\ s # <<>>

CanvasTools ==
  {"get_courses", "get_modules", "get_module_items", "get_file_url",
   "get_course_assignments", "get_assignments_by_course_name",
   "get_canvas_courses"}
GradescopeTools ==
  {"get_gradescope_courses", "get_gradescope_course_by_name",
   "get_gradescope_assignments", "get_gradescope_assignment_by_name"}
UtilityTools == {"get_cache_stats", "clear_cache"}

\* the condition under which the grading-site client is instantiated
HasGradescopeEither(email, password) == Truthy(email) \/ Truthy(password)
HasGradescope(email, password) == Truthy(email) /\ Truthy(password)

\* hasCanvasConfig, which createStatelessServer does not compute: its LMS
\* tools call the client whatever the key
HasCanvasConfig(entry, apiKey) == entry = "index" \/ Truthy(apiKey)

\* the tools an entry point registers; createStatelessServer registers the
\* utility tools inside its if (gradescopeApi) block
ToolsOf(entry, gradescopeApi) ==
  IF entry = "index"
  THEN CanvasTools \cup
         (IF gradescopeApi THEN GradescopeTools \cup UtilityTools ELSE {})
  ELSE CanvasTools \cup UtilityTools \cup
         (IF gradescopeApi THEN GradescopeTools ELSE {})

\* the operation of the grading-site client a tool calls
OpsOfTool(tool) ==
  CASE tool = "get_gradescope_courses" -> { Op("getCourses", NoArg, NoArg) }
    [] tool = "get_gradescope_course_by_name" ->
         { Op("getCourseByName", NoArg, <<"c", "s">>) }
    [] tool = "get_gradescope_assignments" ->
         { Op("getAssignments", CourseA, NoArg) }
    [] tool = "get_gradescope_assignment_by_name" ->
         { Op("getAssignmentByName", CourseA, <<"h", "w">>) }

\* a session is created: the clients are built and the tools registered
CreateSession ==
  /\ ~cacheLog.session.created
  /\ \E entry \in {"worker", "index", "http"}, apiKey \in ConfigValues,
        email \in ConfigValues, password \in ConfigValues :
       LET gradescopeApi == HasGradescope(email, password)
       IN cacheLog' = [cacheLog EXCEPT !.session =
            [created |-> TRUE, entry |-> entry,
             apiKey |-> apiKey, email |-> email, password |-> password,
             gradescopeApi |-> gradescopeApi,
             tools |-> ToolsOf(entry, gradescopeApi),
             canvasCalls |-> 0, last |-> "none", reply |-> "none"]]
  /\ UNCHANGED <<now, cache, isAuthenticated, csrfToken, cookies, calls,
                 credsValid, ghost>>
  /\ UNCHANGED sessions

\* an LMS tool is called: the configuration message, or the LMS client
CallCanvasTool ==
  /\ cacheLog.session.created
  /\ cacheLog.session.canvasCalls < MaxCanvasCalls
  /\ \E tool \in CanvasTools \cap cacheLog.session.tools :
       IF ~HasCanvasConfig(cacheLog.session.entry, cacheLog.session.apiKey)
       THEN cacheLog' = [cacheLog EXCEPT
              !.session.last = tool,
              !.session.reply = "Canvas is not configured"]
       ELSE cacheLog' = [cacheLog EXCEPT
              !.session.last = tool,
              !.session.reply = "canvasApi",
              !.session.canvasCalls = @ + 1]
  /\ UNCHANGED <<now, cache, isAuthenticated, csrfToken, cookies, calls,
                 credsValid, ghost>>
  /\ UNCHANGED sessions

\* a grading-site tool is called: the operation of the client starts
CallGradescopeTool ==
  /\ cacheLog.session.created
  /\ \E tool \in GradescopeTools \cap cacheLog.session.tools :
       Start(1, OpsOfTool(tool))

\* the get_cache_stats tool: the size of the cache is read
CallCacheStats ==
  /\ cacheLog.session.created
  /\ "get_cache_stats" \in cacheLog.session.tools
  /\ cacheLog' = [cacheLog EXCEPT
       !.session.last = "get_cache_stats",
       !.session.reply = IF DOMAIN cache = {} THEN "size 0" ELSE "size n"]
  /\ UNCHANGED <<now, cache, isAuthenticated, csrfToken, cookies, calls,
                 credsValid, ghost>>
  /\ UNCHANGED sessions

\* the clear_cache tool of a session
CallClearCache ==
  /\ cacheLog.session.created
  /\ "clear_cache" \in cacheLog.session.tools
  /\ cache' = CacheClear
  /\ ghost' = [ghost EXCEPT !.lastOk = NoFetch]
  /\ cacheLog' = [cacheLog EXCEPT
       !.session.last = "clear_cache",
       !.session.reply = "Cache cleared successfully"]
  /\ UNCHANGED <<now, isAuthenticated, csrfToken, cookies, calls, credsValid>>
  /\ UNCHANGED sessions

\* one session and its LMS tools
NextLms ==
  \/ CreateSession
  \/ CallCanvasTool

LmsSpec == Init /\ [][NextLms]_vars

\* one session, its grading-site tools with the client one call at a time,
\* and its utility tools
NextTools ==
  \/ CreateSession
  \/ CallGradescopeTool
  \/ CallCacheStats
  \/ CallClearCache
  \/ RootResp(1)
  \/ RootBody(1)
  \/ LoginResp(1)
  \/ RedirectResp(1)
  \/ RedirectBody(1)
  \/ DataResp(1)
  \/ DataBody(1, CoreAccountPages, CoreCoursePages)

ToolSpec == Init /\ [][NextTools]_vars

\* a value that is present and not the empty string
NonEmpty(s) == s \in ConfigValues \ {Null, <<>>}

\* C18: the grading-site client is instantiated, and its four tools are
\* registered, exactly when email and password are both present and
\* non-empty; a session lacking either has no grading-site tool, its client
\* never issues a request, and creating it yields a session with the other
\* tools
GradescopeIffBothCredentials ==
  /\ [](cacheLog.session.created =>
          LET both == /\ NonEmpty(cacheLog.session.email)
                      /\ NonEmpty(cacheLog.session.password)
          IN /\ cacheLog.session.gradescopeApi <=> both
             /\ GradescopeTools \subseteq cacheLog.session.tools <=> both
             /\ ~both => /\ cacheLog.session.tools \cap GradescopeTools = {}
                         /\ calls[1] = IdleCall
                         /\ Requests(calls[1]) = 0)
  /\ [][~cacheLog.session.created /\ cacheLog' # cacheLog =>
          /\ cacheLog'.session.created
          /\ CanvasTools \subseteq cacheLog'.session.tools]_vars

\* a session with both credentials whose tool fetched, and none before it
GradescopeToolFetched ==
  /\ cacheLog.session.created
  /\ cacheLog.session.gradescopeApi
  /\ calls[1].op = "getAssignments"
  /\ calls[1].pc = "data"

\* C19: with an empty LMS API key no LMS tool calls the LMS client
EmptyKeyNoCanvasCall ==
  cacheLog.session.created /\ ~NonEmpty(cacheLog.session.apiKey) =>
    cacheLog.session.canvasCalls = 0

\* C20: every session has the tools get_cache_stats and clear_cache
UtilityToolsAlways ==
  cacheLog.session.created => UtilityTools \subseteq cacheLog.session.tools

(***************************************************************************)
(* Properties of the parsers and the lookups                               *)
(***************************************************************************)
\* C21: a getAssignments call that missed the cache and read a page returns
\* the assignments of the data block when the block holds at least one, and
\* the assignments of the table when the block is missing, unreadable or
\* without assignments; the list it returns is the cache entry of its course
InstructorViewFirst ==
  /\ calls[1].pc = "done" /\ calls[1].op = "getAssignments"
  /\ calls[1].endedAt = "dataBody" /\ calls[1].result.kind = "value"
  => LET page == calls[1].page
         block == parseAssignmentsInstructorView(page)
         key == CacheKey("gradescope_assignments", calls[1].courseId)
     IN /\ ~calls[1].hit
        /\ IF block.ok /\ Len(block.list) >= 1
           THEN calls[1].result.v = block.list
           ELSE calls[1].result.v = parseAssignmentsStudentView(page)
        /\ key \in DOMAIN cache
        /\ cache[key].value = calls[1].result.v
        /\ DOMAIN cache = {key}

\* a data block without assignments was read, and the table was used
EmptyBlockTableUsed ==
  /\ calls[1].pc = "done" /\ calls[1].endedAt = "dataBody"
  /\ calls[1].result.kind = "value"
  /\ calls[1].page.react.div
  /\ parseAssignmentsInstructorView(calls[1].page) = Parsed(<<>>)
  /\ Len(calls[1].result.v) = 1
  /\ calls[1].result.v[1].name = <<"H", "W", "2">>

\* C22: a getAssignments call that read a page without a data block
\* returns one assignment per row of at least 3 cells between the header
\* and the footer, in the order of the rows: "Submitted" with the numbers
\* on both sides of " / " when the points cell holds " / ", and otherwise
\* the text of the cell as status without grades; the page with the one row
\* HW1, 8 / 10 yields one assignment with grade 8 of 10
StudentTableRows ==
  /\ calls[1].pc = "done" /\ calls[1].op = "getAssignments"
  /\ calls[1].endedAt = "dataBody" /\ calls[1].result.kind = "value"
  /\ ~calls[1].page.react.div
  => LET page == calls[1].page
         list == calls[1].result.v
         rows == SelectSeq(SubSeq(page.rows, 2, Len(page.rows) - 1),
                           LAMBDA r : r.cells >= 3)
     IN /\ Len(list) = Len(rows)
        /\ \A i \in 1..Len(rows) :
             LET text == Trim(rows[i].points)
                 at == FindFrom(text, Slash3, 1)
                 after == SubSeq(text, at + 3, Len(text))
             IN /\ list[i].name = Trim(rows[i].name)
                /\ IF at # 0
                   THEN /\ list[i].submissions_status = <<"Submitted">>
                        /\ list[i].grade = ParseFloat(SubSeq(text, 1, at - 1))
                        /\ list[i].max_grade = ParseFloat(after)
                   ELSE /\ list[i].submissions_status = text
                        /\ list[i].grade = NullNum
                        /\ list[i].max_grade = NullNum
        /\ page = CoursePageStudent =>
             /\ Len(list) = 1
             /\ list[1].name = <<"H", "W", "1">>
             /\ list[1].grade = Num(8)
             /\ list[1].max_grade = Num(10)
             /\ list[1].submissions_status = <<"Submitted">>

\* the page with the header, the row HW1, 8 / 10 and the footer was read
OneRowHW1 ==
  /\ calls[1].pc = "done" /\ calls[1].result.kind = "value"
  /\ calls[1].page = CoursePageStudent
  /\ Len(calls[1].result.v) = 1
  /\ calls[1].result.v[1].grade = Num(8)

\* C23: a getCourses call that read the account page returns, when a role
\* section holds a course, the courses of the student section and of the
\* instructor section and none of "Your Courses"; when neither holds a
\* course, the courses of "Your Courses" in one group, instructor if the
\* heading has the create-course button and student if not, and the other
\* group empty; the result is the value of the only cache entry
YourCoursesFallback ==
  /\ calls[1].pc = "done" /\ calls[1].op = "getCourses"
  /\ calls[1].endedAt = "dataBody" /\ calls[1].result.kind = "value"
  => LET page == calls[1].page
         got == calls[1].result.v
         Keys(group) == {group[i].key : i \in 1..Len(group)}
         Ids(sec) ==
           IF ~sec.heading \/ sec.terms = NoList THEN {}
           ELSE UNION {{CourseIdPrefix \o Last(Split(sec.terms[t].anchors[a].href, "/")) :
                          a \in 1..Len(sec.terms[t].anchors)} :
                       t \in 1..Len(sec.terms)}
         key == CacheKey("gradescope_courses", NoSubKey)
     IN /\ IF Ids(page.student) # {} \/ Ids(page.instructor) # {}
           THEN /\ Keys(got.student) = Ids(page.student)
                /\ Keys(got.instructor) = Ids(page.instructor)
           ELSE IF page.yours.heading /\ page.yours.button
           THEN Keys(got.instructor) = Ids(page.yours) /\ got.student = <<>>
           ELSE Keys(got.student) = Ids(page.yours) /\ got.instructor = <<>>
        /\ DOMAIN cache = {key}
        /\ cache[key].value = got

\* a page with a student heading without courses and "Your Courses" with the
\* button was read: the course of "Your Courses" is an instructor course
YoursAsInstructor ==
  /\ calls[1].pc = "done" /\ calls[1].op = "getCourses"
  /\ calls[1].result.kind = "value" /\ calls[1].endedAt = "dataBody"
  /\ calls[1].page.student.heading
  /\ calls[1].page.yours.heading
  /\ Len(calls[1].result.v.instructor) = 1
  /\ calls[1].result.v.student = <<>>

\* C24: a getCourseByName call returns absent when getCourses returned
\* absent; otherwise the first student course whose short or full name
\* holds the part in any case; if there is none, the first such instructor
\* course; if there is none either, absent
StudentGroupFirst ==
  /\ calls[1].pc = "done" /\ calls[1].op = "getCourseByName"
  => LET key == CacheKey("gradescope_courses", NoSubKey)
         part == ToLowerCase(calls[1].part)
         Hit(c) == \/ Includes(ToLowerCase(c.value.name), part)
                   \/ Includes(ToLowerCase(c.value.full_name), part)
         Hits(group) == {i \in 1..Len(group) : Hit(group[i])}
         First(group) ==
           group[CHOOSE i \in Hits(group) : \A j \in Hits(group) : i <= j].value
     IN IF ~calls[1].hit /\ calls[1].page = Absent
        THEN calls[1].result = Absent
        ELSE LET courses == cache[key].value IN
             IF Hits(courses.student) # {}
             THEN calls[1].result = Value(First(courses.student))
             ELSE IF Hits(courses.instructor) # {}
             THEN calls[1].result = Value(First(courses.instructor))
             ELSE calls[1].result = Absent

\* "cs" was looked up where the student course CS1 and the instructor
\* course CS9 both match: the student course is returned
StudentCourseWins ==
  /\ calls[1].pc = "done" /\ calls[1].op = "getCourseByName"
  /\ calls[1].part = <<"c", "s">>
  /\ calls[1].result.kind = "value"
  /\ calls[1].result.v.name = <<"C", "S", "1">>
  /\ \E i \in 1..Len(cache[CacheKey("gradescope_courses", NoSubKey)].value.instructor) :
       cache[CacheKey("gradescope_courses", NoSubKey)].value.instructor[i].value.name
         = <<"C", "S", "9">>

\* C25: the query of a finished search is classified as get_courses when it
\* holds a courses keyword, else as get_assignments when it holds an
\* assignments keyword, else as get_submission when it holds a submission
\* keyword, else as null with a confidence below that of every type; the
\* search returns the courses for get_courses, the request to name a course
\* for the two other types, and for null the guidance message without a
\* request and without a cache hit
ClassifiedInOrder ==
  /\ calls[1].pc = "done" /\ calls[1].op = "search"
  => LET q == ToLowerCase(calls[1].part)
         Has(keywords) == \E k \in keywords : Includes(q, k)
         a == analyzeGradescopeQuery(calls[1].part)
         got == calls[1].result
     IN /\ a.type = "get_courses" <=> Has(CourseKeywords)
        /\ a.type = "get_assignments" <=>
             ~Has(CourseKeywords) /\ Has(AssignmentKeywords)
        /\ a.type = "get_submission" <=>
             /\ ~Has(CourseKeywords) /\ ~Has(AssignmentKeywords)
             /\ Has(SubmissionKeywords)
        /\ a.type = "null" <=>
             /\ ~Has(CourseKeywords) /\ ~Has(AssignmentKeywords)
             /\ ~Has(SubmissionKeywords)
        /\ a.type = "null" =>
             /\ \A o \in ParserOps :
                  analyzeGradescopeQuery(o.part).type # "null" =>
                    a.confidence < analyzeGradescopeQuery(o.part).confidence
             /\ got = Value(Guidance)
             /\ Requests(calls[1]) = 0
             /\ ~calls[1].hit
        /\ got.kind = "value"
        /\ Has(CourseKeywords) =>
             \/ DOMAIN got.v = {"student", "instructor"}
             \/ DOMAIN got.v = {"error"}
        /\ ~Has(CourseKeywords) /\ (Has(AssignmentKeywords) \/ Has(SubmissionKeywords)) =>
             \/ DOMAIN got.v = {"message", "courses"}
             \/ DOMAIN got.v = {"error"}

\* a query with a courses keyword and an assignments keyword was answered
\* with the courses
CoursesBeforeAssignments ==
  /\ calls[1].pc = "done" /\ calls[1].op = "search"
  /\ Includes(ToLowerCase(calls[1].part), <<"h", "o", "m", "e", "w", "o", "r", "k">>)
  /\ Includes(ToLowerCase(calls[1].part), <<"l", "i", "s", "t", " ", "c", "o", "u", "r", "s", "e", "s">>)
  /\ calls[1].nData = 1
  /\ DOMAIN calls[1].result.v = {"student", "instructor"}

(***************************************************************************)
(* What a failure leaves behind                                            *)
(***************************************************************************)
\* C26: a cache entry appears or changes only in the step in which a call
\* whose data request was answered 2xx has parsed its page, and it is the
\* entry of that call; a step in which a call in flight ends without a page
\* parsed leaves the cache as it is; every value the cache holds is the
\* value of a parsed page
CacheWrittenOnSuccessOnly ==
  /\ [][\A k \in DOMAIN cache' :
          k \notin DOMAIN cache \/ cache'[k] # cache[k] =>
            /\ calls[1].pc = "dataBody" /\ calls'[1].pc = "done"
            /\ calls[1].status \in 200..299
            /\ calls'[1].page # Absent
            /\ k = IF calls[1].op \in {"getAssignments", "getAssignmentByName"}
                   THEN <<"gradescope_assignments", calls[1].courseId>>
                   ELSE <<"gradescope_courses", NoSubKey>>]_vars
  /\ [][InFlight(1) /\ calls'[1].pc = "done" /\ calls'[1].page = Absent =>
          cache' = cache]_vars
  /\ [](\A k \in DOMAIN cache :
          IF k[1] = "gradescope_courses"
          THEN \E page \in AccountPages : cache[k].value = CoursesOf[page]
          ELSE \E page \in CoursePages : cache[k].value = AssignmentsOf[page])

\* getAssignments failed on a 500 while the cache held the courses
FailureBesideEntry ==
  /\ calls[1].pc = "done" /\ calls[1].op = "getAssignments"
  /\ calls[1].status = 500 /\ calls[1].endedAt = "data"
  /\ calls[1].result = Absent
  /\ DOMAIN cache = {<<"gradescope_courses", NoSubKey>>}

\* C27: the step in which a data response with a status that is neither 2xx
\* nor 401 ends a call leaves isAuthenticated set and the token as it is,
\* and the call returns absent; the call that starts next sends its data
\* request without a handshake
OtherFailureKeepsSession ==
  /\ [][/\ calls[1].pc = "data" /\ calls'[1].pc = "done"
        /\ calls'[1].status >= 300 /\ calls'[1].status # 401
        => /\ isAuthenticated /\ isAuthenticated'
           /\ csrfToken' = csrfToken
           /\ calls'[1].op # "search" => calls'[1].result = Absent]_vars
  /\ [][/\ calls[1].pc = "done" /\ calls[1].endedAt = "data"
        /\ calls[1].status >= 300 /\ calls[1].status # 401
        /\ calls'[1].pc \notin {"idle", "done"}
        => /\ calls'[1].pc = "data"
           /\ calls'[1].nRoot = 0 /\ calls'[1].nLogin = 0
           /\ calls'[1].nData = 1]_vars

\* a call failed on a 500 and the session, with its token, is still there
FailedOn500StillAuthenticated ==
  /\ calls[1].pc = "done" /\ calls[1].endedAt = "data"
  /\ calls[1].status = 500
  /\ calls[1].result = Absent
  /\ isAuthenticated
  /\ csrfToken # <<>>

\* C28: a step of the handshake that ends the call (the root GET failed or
\* was not 2xx, its page could not be read or held no token, the login POST
\* failed or was not answered 302) leaves isAuthenticated false and the
\* token as it is; no step up to the login response changes them; the jar
\* is left alone by a root GET that failed or was not 2xx and by the reading
\* of the page, takes the cookies of a login response that is not a 302,
\* and never loses a cookie it held
FailedHandshakeFrame ==
  /\ [][/\ calls[1].pc \in {"root", "rootBody", "login"}
        /\ calls'[1].pc = "done"
        => /\ ~isAuthenticated /\ ~isAuthenticated'
           /\ csrfToken' = csrfToken
           /\ cache' = cache
           /\ calls'[1].op # "search" => calls'[1].result = Absent]_vars
  /\ [][calls[1].pc \in {"root", "rootBody"} =>
          isAuthenticated' = isAuthenticated /\ csrfToken' = csrfToken]_vars
  /\ [][\/ calls[1].pc = "root" /\ calls'[1].pc = "done"
        \/ calls[1].pc = "rootBody"
        => cookies' = cookies]_vars
  /\ [][calls[1].pc = "login" /\ calls'[1].pc = "done" =>
          \E h \in SetCookieChoices :
            cookies' = setCookiesFromHeaders(cookies, h)]_vars
  /\ [][calls[1].pc \in {"root", "rootBody", "login"} =>
          \A i \in 1..Len(cookies) :
            \E j \in 1..Len(cookies') : cookies'[j].name = cookies[i].name]_vars

\* the login POST of the first handshake was answered 401: the jar holds
\* cookies, there is no session and no token
LoginFailedJarKept ==
  /\ calls[1].pc = "done" /\ calls[1].endedAt = "login"
  /\ calls[1].loginStatus = 401
  /\ ghost.session = "none"
  /\ Len(cookies) = 2
  /\ ~isAuthenticated
  /\ csrfToken = <<>>

\* C29: the redirect GET is sent only in the step that takes a 302 from the
\* login POST; after a 302 the call never ends in the handshake: without a
\* Location header it sends its data request at once, and after a redirect
\* GET that threw or was not 2xx, or whose page could not be read, it sends
\* it with the jar and the token as they were; isAuthenticated is set
\* whenever the data request follows the handshake
RedirectNeverFatal ==
  /\ [][calls'[1].nRedirect > calls[1].nRedirect =>
          /\ calls[1].pc = "login" /\ calls'[1].pc = "redirect"
          /\ calls'[1].loginStatus = 302
          /\ calls'[1].nRedirect = calls[1].nRedirect + 1]_vars
  /\ [][/\ calls[1].pc = "login" /\ calls'[1].pc # "login"
        /\ calls'[1].loginStatus = 302
        => \/ calls'[1].pc = "redirect"
           \/ /\ calls'[1].pc = "data" /\ isAuthenticated'
              /\ calls'[1].nRedirect = calls[1].nRedirect
              /\ calls'[1].nData = calls[1].nData + 1]_vars
  /\ [][calls[1].pc = "redirect" /\ calls'[1] # calls[1] =>
          \/ calls'[1].pc = "redirectBody" /\ calls'[1].status \in 200..299
          \/ /\ calls'[1].pc = "data" /\ isAuthenticated'
             /\ cookies' = cookies /\ csrfToken' = csrfToken
             /\ calls'[1].nData = calls[1].nData + 1]_vars
  /\ [][calls[1].pc = "redirectBody" /\ calls'[1] # calls[1] =>
          /\ calls'[1].pc = "data" /\ isAuthenticated'
          /\ cookies' = cookies
          /\ calls'[1].nData = calls[1].nData + 1]_vars

\* the login POST was answered 302 and the redirect GET gave no page with a
\* token: the data request is out and the session is authenticated
AuthenticatedWithoutToken ==
  /\ calls[1].pc = "data"
  /\ calls[1].loginStatus = 302
  /\ calls[1].nRedirect = 1
  /\ calls[1].meta = "n/a"
  /\ isAuthenticated
  /\ csrfToken = <<>>

\* C30: the cookies a login POST sends are the jar as the root response of
\* the same handshake left it, the response whose page gave the token
TokenAndCookiesOfOneResponse ==
  \A c \in Calls :
    calls[c].pc = "login" =>
      /\ calls[c].sent.token = calls[c].authToken
      /\ calls[c].sent.cookie = getCookieString(calls[c].rootJar)

(***************************************************************************)
(* The session under concurrent calls                                      *)
(***************************************************************************)
\* C31: a 401 to a data request sent before another call completed its
\* handshake leaves isAuthenticated as it is; a 401 to a data request of the
\* current session resets it
StaleUnauthorizedKeepsSession ==
  [][\A c \in Calls :
       /\ calls[c].pc = "data" /\ calls'[c].pc = "done"
       /\ calls'[c].status = 401
       => IF calls[c].stale
          THEN isAuthenticated' = isAuthenticated
          ELSE ~isAuthenticated']_vars

(***************************************************************************)
(* A page without assignments                                              *)
(***************************************************************************)
\* C32: a getAssignments call that read its page returns a list, never
\* absent, and the cache holds that list under the course id for the default
\* ttl; the list is empty when the page has no data block with an assignment
\* and no row of three cells between the first and the last row; while the
\* cache holds an empty list that has not expired, a getAssignments call
\* returns the empty list without a request
EmptyListCached ==
  /\ [][/\ calls[1].pc = "dataBody" /\ calls'[1].pc = "done"
        /\ calls'[1].op = "getAssignments"
        /\ calls'[1].page # Absent
        => LET page == calls'[1].page
               key == KeyOf(calls'[1])
               block == IF ~page.react.div THEN <<>>
                        ELSE IF ~page.react.props.json THEN <<>>
                        ELSE IF page.react.props.table_data = NoTableData THEN <<>>
                        ELSE page.react.props.table_data
               bare == /\ \A i \in 1..Len(block) : block[i].type # "assignment"
                       /\ \A i \in 2..(Len(page.rows) - 1) : page.rows[i].cells < 3
           IN /\ calls'[1].result.kind = "value"
              /\ key \in DOMAIN cache'
              /\ cache'[key] = [value |-> calls'[1].result.v,
                                expiresAt |-> now + DefaultTTL]
              /\ bare => calls'[1].result.v = <<>>]_vars
  /\ [][LET key == KeyOf(calls'[1]) IN
        /\ calls[1].pc \in {"idle", "done"} /\ calls'[1] # calls[1]
        /\ calls'[1].op = "getAssignments"
        /\ key \in DOMAIN cache
        /\ cache[key].value = <<>> /\ now < cache[key].expiresAt
        => /\ calls'[1].pc = "done" /\ calls'[1].hit
           /\ calls'[1].result = Value(<<>>)
           /\ Requests(calls'[1]) = 0
           /\ cache' = cache]_vars

\* a getAssignments call served the empty list from the cache, later than
\* the fetch that stored it
EmptyListServed ==
  /\ calls[1].pc = "done" /\ calls[1].op = "getAssignments"
  /\ calls[1].hit
  /\ calls[1].result = Value(<<>>)
  /\ Requests(calls[1]) = 0
  /\ now > 0

(***************************************************************************)
(* The HTTP handler and its sessions.  A session is what createTools       *)
(* built for the request that created it: the tools, and behind them one   *)
(* cache and one grading-site client (flag and jar).  A request carries    *)
(* the Mcp-Session-Id header (missing, empty, an id the client made up, or *)
(* an id the handler issued) and the configuration getConfigFromRequest    *)
(* reads from it.                                                          *)
(***************************************************************************)
\* crypto.randomUUID() returns one of these, each at most once
MaxUuid == 2
Uuids == {<<"u">> \o [i \in 1..n |-> "1"] : n \in 1..MaxUuid}

\* the values of the Mcp-Session-Id header: missing, empty, an id the
\* client made up, an id of the handler
SessionHeaders == {Null, <<>>, <<"x">>} \cup Uuids

\* the configuration of a request: with and without grading-site credentials
RequestConfigs ==
  { [apiKey |-> <<"k">>, email |-> <<"a">>, password |-> <<"p">>],
    [apiKey |-> <<"k">>, email |-> Null, password |-> Null] }

\* createTools, createStatelessServer, CanvasMcpAgent.init: the clients and
\* the tools of a new session
createTools(entry, config) ==
  LET gradescopeApi == HasGradescope(config.email, config.password) IN
  [entry |-> entry, config |-> config,
   tools |-> ToolsOf(entry, gradescopeApi),
   cache |-> CacheClear, isAuthenticated |-> FALSE, cookies |-> <<>>]

\* a handler that uses the id of the header whenever there is one
PostSessionIdOfHeader(header, stored, uuid) ==
  IF Falsy(header) THEN uuid ELSE header

\* POST: the id of the session that serves the request
PostSessionId(header, stored, uuid) ==
  IF Falsy(header) \/ header \notin stored THEN uuid ELSE header

\* GET: request.headers.get("Mcp-Session-Id") || crypto.randomUUID()
GetSessionId(header, uuid) == IF Truthy(header) THEN header ELSE uuid

\* a handler that builds the tools of every request from its configuration
SessionsOfRequest(map, sessionId, config) ==
  [x \in DOMAIN map \cup {sessionId} |->
     IF x = sessionId THEN createTools("http", config) ELSE map[x]]

\* if (!sessions.has(sessionId)) sessions.set(sessionId, {tools: createTools(config)})
SessionsWith(map, sessionId, config) ==
  IF sessionId \in DOMAIN map THEN map
  ELSE [x \in DOMAIN map \cup {sessionId} |->
          IF x = sessionId THEN createTools("http", config) ELSE map[x]]

\* a DELETE that leaves the session in the Map
SessionsKept(map, header) == map

\* if (sessionId) sessions.delete(sessionId)
SessionsDelete(map, header) ==
  IF Truthy(header) THEN [x \in DOMAIN map \ {header} |-> map[x]] ELSE map

\* JSON-RPC messages; a notification has no id
Msg(method, id, tool) == [method |-> method, id |-> id, tool |-> tool]

\* the body of a POST that is JSON: an array of messages, or one message
Body(isArray, messages) == [json |-> TRUE, isArray |-> isArray, messages |-> messages]

\* what handleMessage returns: null, or a response with the id of the
\* message and a result (code 0) or the code of an error
NullResponse == [null |-> TRUE]
Response(id, code) == [id |-> id, code |-> code]

handleMessage(tools, message) ==
  IF message.method = "notifications/initialized" THEN NullResponse
  ELSE IF message.method \in {"initialize", "tools/list", "ping",
                              "resources/list", "prompts/list"}
  THEN Response(message.id, 0)
  ELSE IF message.method = "tools/call"
  THEN (IF message.tool \in tools THEN Response(message.id, 0)
        ELSE Response(message.id, -32602))
  ELSE Response(message.id, -32601)

\* the cache the tools of a session read and write: the WorkerCache built
\* for the session, or for createStatelessServer the cache of the module
CacheOf(ss, session) ==
  IF session.entry = "index" THEN ss.module ELSE session.cache

\* what the grading site does to a get_gradescope_courses call
ToolOutcomes == {"fetched", "unauthorized", "failed"}

\* the session and the cache of the module after a tool handler ran:
\* clear_cache empties the cache; get_gradescope_courses returns from the
\* cache, or logs in, fetches and stores the courses ("fetched"), or has
\* its data request answered 401 ("unauthorized"), or fails otherwise
RunTool(ss, session, tool, outcome) ==
  LET held == CacheOf(ss, session)
      key == CacheKey("gradescope_courses", NoSubKey)
      miss == CacheGet(held, key, now).kind # "value"
      written ==
        IF tool = "clear_cache" THEN CacheClear
        ELSE IF tool = "get_gradescope_courses" /\ miss /\ outcome = "fetched"
        THEN CacheSet(held, key, CoursesOf[PageStudent], DefaultTTL, now)
        ELSE held
      after ==
        IF tool = "get_gradescope_courses" /\ miss
        THEN CASE outcome = "fetched" ->
                    [session EXCEPT
                       !.isAuthenticated = TRUE,
                       !.cookies = IF session.isAuthenticated THEN @
                                   ELSE setCookiesFromHeaders(@, << <<"a", "=", "1">> >>)]
               [] outcome = "unauthorized" ->
                    [session EXCEPT !.isAuthenticated = FlagAfterData(@, 401)]
               [] OTHER -> session
        ELSE session
  IN IF session.entry = "index"
     THEN [session |-> after, module |-> written]
     ELSE [session |-> [after EXCEPT !.cache = written], module |-> ss.module]

\* the response array: the null responses filtered out; for a body that is
\* no array, the first response
BatchResult(body, responses) ==
  LET filtered == SelectSeq(responses, LAMBDA r : r # NullResponse) IN
  IF body.isArray THEN [array |-> TRUE, responses |-> filtered]
  ELSE [array |-> FALSE,
        responses |-> IF filtered = <<>> THEN <<>> ELSE <<filtered[1]>>]

\* the headers a client can send: it cannot guess an id that randomUUID has
\* yet to return
Sendable(headers) ==
  {header \in headers : header \in Uuids => header \in sessions.used}

\* GET: the event stream of a session, which is created under the id of the
\* header when the Map does not hold it
HttpGet(headers, configs) ==
  /\ sessions.request = NoPost
  /\ \E header \in Sendable(headers), config \in configs :
       \E uuid \in IF Truthy(header) THEN {Null} ELSE Uuids \ sessions.used :
         LET sessionId == GetSessionId(header, uuid) IN
         sessions' = [sessions EXCEPT
           !.map = SessionsWith(@, sessionId, config),
           !.used = IF Truthy(header) THEN @ ELSE @ \cup {uuid},
           !.reply = [kind |-> "response", status |-> 200, method |-> "GET",
                      sessionId |-> sessionId]]
  /\ UNCHANGED <<now, cache, isAuthenticated, csrfToken, cookies, calls,
                 credsValid, ghost, cacheLog>>

\* POST: the session is looked up or created, the body is read and its
\* messages are handed to handleMessage
HttpPost(headers, configs, bodies) ==
  /\ sessions.request = NoPost
  /\ \E header \in Sendable(headers), config \in configs, body \in bodies :
       LET fresh == Falsy(header) \/ header \notin DOMAIN sessions.map IN
       \E uuid \in IF fresh THEN Uuids \ sessions.used ELSE {Null} :
         LET sessionId == PostSessionId(header, DOMAIN sessions.map, uuid) IN
         sessions' = [sessions EXCEPT
           !.map = SessionsWith(@, sessionId, config),
           !.used = IF fresh THEN @ \cup {uuid} ELSE @,
           !.request =
              IF ~body.json THEN NoPost
              ELSE [method |-> "POST", header |-> header, config |-> config,
                    sessionId |-> sessionId, body |-> body,
                    responses |-> [i \in 1..Len(body.messages) |-> Pending],
                    order |-> <<>>],
           !.reply = IF ~body.json THEN [kind |-> "threw", method |-> "POST"]
                     ELSE NoReply]
  /\ UNCHANGED <<now, cache, isAuthenticated, csrfToken, cookies, calls,
                 credsValid, ghost, cacheLog>>

\* handleMessage returns for one message of the POST in flight; a tool that
\* was called has run in the session of the request
HttpHandled ==
  /\ sessions.request # NoPost
  /\ \E i \in 1..Len(sessions.request.body.messages), outcome \in ToolOutcomes :
       LET r == sessions.request
           message == r.body.messages[i]
           session == sessions.map[r.sessionId]
           ran == IF message.method = "tools/call" /\ message.tool \in session.tools
                  THEN RunTool(sessions, session, message.tool, outcome)
                  ELSE [session |-> session, module |-> sessions.module]
       IN /\ r.responses[i] = Pending
          /\ sessions' = [sessions EXCEPT
               !.map[r.sessionId] = ran.session,
               !.module = ran.module,
               !.request.responses[i] = handleMessage(session.tools, message),
               !.request.order = Append(@, i)]
  /\ UNCHANGED <<now, cache, isAuthenticated, csrfToken, cookies, calls,
                 credsValid, ghost, cacheLog>>

\* every handleMessage has returned: the POST is answered
HttpRespond ==
  /\ sessions.request # NoPost
  /\ \A i \in 1..Len(sessions.request.responses) :
       sessions.request.responses[i] # Pending
  /\ sessions' = [sessions EXCEPT
       !.request = NoPost,
       !.reply = [kind |-> "response", status |-> 200, method |-> "POST",
                  sessionId |-> sessions.request.sessionId,
                  body |-> BatchResult(sessions.request.body,
                                       sessions.request.responses)]]
  /\ UNCHANGED <<now, cache, isAuthenticated, csrfToken, cookies, calls,
                 credsValid, ghost, cacheLog>>

\* DELETE: the session of the header is removed; the answer is 204
HttpDelete(headers) ==
  /\ sessions.request = NoPost
  /\ \E header \in Sendable(headers) :
       sessions' = [sessions EXCEPT
         !.map = SessionsDelete(@, header),
         !.reply = [kind |-> "response", status |-> 204, method |-> "DELETE",
                    header |-> header]]
  /\ UNCHANGED <<now, cache, isAuthenticated, csrfToken, cookies, calls,
                 credsValid, ghost, cacheLog>>

\* requests with one message each, and a body that is no JSON
HttpBodies ==
  { Body(FALSE, <<Msg("ping", <<"1">>, "")>>),
    Body(FALSE, <<Msg("tools/call", <<"1">>, "get_gradescope_courses")>>),
    Body(FALSE, <<Msg("tools/call", <<"1">>, "clear_cache")>>),
    [json |-> FALSE] }

\* the handler, one request at a time
NextHttp ==
  \/ HttpGet(SessionHeaders, RequestConfigs)
  \/ HttpPost(SessionHeaders, RequestConfigs, HttpBodies)
  \/ HttpHandled
  \/ HttpRespond
  \/ HttpDelete(SessionHeaders)

HttpSpec == CacheInit /\ [][NextHttp]_vars

CredentialsBoundAtCreation ==
  /\ [][\A x \in DOMAIN sessions.map \cap DOMAIN sessions'.map :
          /\ sessions'.map[x].config = sessions.map[x].config
          /\ sessions'.map[x].tools = sessions.map[x].tools]_vars
  /\ [][/\ sessions.request = NoPost /\ sessions'.request # NoPost
        /\ sessions'.request.header \in DOMAIN sessions.map
        => /\ sessions'.request.sessionId = sessions'.request.header
           /\ sessions'.map = sessions.map]_vars
  /\ [][/\ sessions'.reply # sessions.reply /\ sessions'.reply.kind = "response"
        /\ sessions'.reply.method = "GET"
        /\ sessions'.reply.sessionId \in DOMAIN sessions.map
        => sessions'.map = sessions.map]_vars
  /\ [][sessions.request # NoPost /\ sessions'.request # NoPost =>
          LET r == sessions.request
              held == sessions.map[r.sessionId].config
          IN \A i \in 1..Len(r.responses) :
               /\ sessions'.request.responses[i] # r.responses[i]
               /\ r.body.messages[i].method = "tools/call"
               /\ r.body.messages[i].tool = "get_gradescope_courses"
               => (sessions'.request.responses[i].code = 0
                     <=> Truthy(held.email) /\ Truthy(held.password))]_vars

\* a POST that carries grading-site credentials names a session created
\* without them: its get_gradescope_courses call was answered "Unknown tool"
LaterCredentialsIgnored ==
  /\ sessions.request # NoPost
  /\ sessions.request.header = sessions.request.sessionId
  /\ Truthy(sessions.request.config.email)
  /\ ~Truthy(sessions.map[sessions.request.sessionId].config.email)
  /\ sessions.request.body.messages[1].tool = "get_gradescope_courses"
  /\ sessions.request.responses[1] = Response(<<"1">>, -32602)

(***************************************************************************)
(* Sessions of one process side by side.  A process runs one entry point;  *)
(* each of its sessions is built by createTools (the HTTP handler), by     *)
(* CanvasMcpAgent.init or by createStatelessServer, and its tools are      *)
(* called.                                                                 *)
(***************************************************************************)
\* a session of the entry point of the process is created
SessionCreated ==
  /\ \E entry \in {"http", "worker", "index"}, config \in RequestConfigs,
        uuid \in Uuids \ sessions.used :
       /\ \A x \in DOMAIN sessions.map : sessions.map[x].entry = entry
       /\ sessions' = [sessions EXCEPT
            !.map = [x \in DOMAIN @ \cup {uuid} |->
                       IF x = uuid THEN createTools(entry, config) ELSE @[x]],
            !.used = @ \cup {uuid},
            !.reply = [kind |-> "created", sessionId |-> uuid]]
  /\ UNCHANGED <<now, cache, isAuthenticated, csrfToken, cookies, calls,
                 credsValid, ghost, cacheLog>>

\* a tool of a session is called and its handler runs
ToolCalled ==
  /\ \E x \in DOMAIN sessions.map, outcome \in ToolOutcomes :
       \E tool \in sessions.map[x].tools \cap {"get_gradescope_courses", "clear_cache"} :
         LET ran == RunTool(sessions, sessions.map[x], tool, outcome) IN
         sessions' = [sessions EXCEPT
           !.map[x] = ran.session,
           !.module = ran.module,
           !.reply = [kind |-> "tool", sessionId |-> x, tool |-> tool,
                      outcome |-> outcome]]
  /\ UNCHANGED <<now, cache, isAuthenticated, csrfToken, cookies, calls,
                 credsValid, ghost, cacheLog>>

NextOwners ==
  \/ SessionCreated
  \/ ToolCalled

OwnerSpec == CacheInit /\ [][NextOwners]_vars

\* C36: a tool call in one session (clear_cache, a fetch that logs in and
\* writes the cache, a 401) leaves the cache its tools read, the jar and the
\* flag of every other session as they are
SessionsOwnTheirState ==
  [][sessions'.reply.kind = "tool" =>
       \A x \in DOMAIN sessions.map \ {sessions'.reply.sessionId} :
         /\ CacheOf(sessions', sessions'.map[x]) = CacheOf(sessions, sessions.map[x])
         /\ sessions'.map[x].cookies = sessions.map[x].cookies
         /\ sessions'.map[x].isAuthenticated = sessions.map[x].isAuthenticated]_vars

(***************************************************************************)
(* Batches: a POST whose body is an array of messages.  The handlers of    *)
(* the messages return in any order.                                       *)
(***************************************************************************)
BatchBodies ==
  { Body(TRUE, << Msg("initialize", <<"1">>, ""),
                  Msg("notifications/initialized", Null, ""),
                  Msg("tools/call", <<"2">>, "get_gradescope_courses"),
                  Msg("ping", <<"3">>, "") >>),
    Body(TRUE, << Msg("notifications/cancelled", Null, ""),
                  Msg("ping", <<"1">>, "") >>),
    Body(TRUE, << Msg("notifications/initialized", Null, "") >>) }

NextBatch ==
  \/ HttpPost({Null} \cup Uuids, RequestConfigs, BatchBodies)
  \/ HttpHandled
  \/ HttpRespond

BatchSpec == CacheInit /\ [][NextBatch]_vars

\* C37: the messages of a batch are handled in any order by the session of
\* the POST, and the answer is an array that holds, in the order of the
\* messages, one response for each message that has an id and none for a
\* notification
BatchAnsweredInOrder ==
  /\ [][sessions.request # NoPost /\ sessions'.request # NoPost =>
          /\ sessions'.request.sessionId = sessions.request.sessionId
          /\ \A x \in DOMAIN sessions.map \ {sessions.request.sessionId} :
               sessions'.map[x] = sessions.map[x]]_vars
  /\ [][sessions.request # NoPost /\ sessions'.request = NoPost =>
          LET asked == SelectSeq(sessions.request.body.messages,
                                 LAMBDA m : m.id # Null)
              answered == sessions'.reply.body.responses
          IN /\ sessions'.reply.body.array = sessions.request.body.isArray
             /\ Len(sessions.request.order) = Len(sessions.request.body.messages)
             /\ sessions.request.body.isArray =>
                  /\ Len(answered) = Len(asked)
                  /\ \A i \in 1..Len(answered) :
                       i <= Len(asked) => answered[i].id = asked[i].id]_vars

====
